---- MODULE Spec2Model ----
(***************************************************************************)
(* Model of the backtest engine of in-shadow-trader: run_backtest of       *)
(* src/backtest.py (chunked single pass over historical bars, position     *)
(* ledger, trade and portfolio logs, drawdown tracking, final settlement   *)
(* and summary metrics).                                                   *)
(*                                                                         *)
(* Money, sizes and ratios are Python floats in the source.  They are      *)
(* modelled as exact rationals [n, d] in lowest terms, so equalities of    *)
(* the accounting are decided in real arithmetic, free of rounding.  The   *)
(* decisions the code takes by comparing floats (the stop-loss test, the   *)
(* test pnl > 0, the test std_return == 0) and the Sharpe ratio are         *)
(* computed on the doubles the run itself holds: the variable doubles      *)
(* carries engine.capital, position_size and the sample values as the      *)
(* binary64 numbers the code's own operations produce, one rounding per    *)
(* operation.                                                              *)
(*                                                                         *)
(* Timestamps are small integers.  In every specification but             *)
(* SpecRepeated the timestamp of a row of the CSV file is its row number,  *)
(* so timestamps are unique and strictly increasing.  In the engine a data *)
(* frame is modelled by its index (a sequence of timestamps); the close of *)
(* a row is revealed when                                                  *)
(* the loop reads that row (the loop never looks ahead), and the outcome   *)
(* of an evaluator on the window ending at a row is an input of that row.  *)
(***************************************************************************)
EXTENDS Integers, Sequences, FiniteSets

(***************************************************************************)
(* Exact rational arithmetic.                                              *)
(***************************************************************************)
Abs(x) == IF x < 0 THEN -x ELSE x

RECURSIVE GCD(_, _)
GCD(a, b) == IF b = 0 THEN a ELSE GCD(b, a % b)

Norm(n, d) ==
    LET g == GCD(Abs(n), Abs(d))
        s == IF d < 0 THEN -1 ELSE 1
    IN  [n |-> s * (n \div g), d |-> s * (d \div g)]

R(n, d) == Norm(n, d)

RInt(k) == [n |-> k, d |-> 1]

RNeg(x) == [n |-> -x.n, d |-> x.d]

RAdd(x, y) ==
    LET g == GCD(x.d, y.d)
    IN  Norm(x.n * (y.d \div g) + y.n * (x.d \div g), (x.d \div g) * y.d)

RSub(x, y) == RAdd(x, RNeg(y))

RMul(x, y) ==
    LET g1 == GCD(Abs(x.n), y.d)
        g2 == GCD(Abs(y.n), x.d)
    IN  Norm((x.n \div g1) * (y.n \div g2), (x.d \div g2) * (y.d \div g1))

RInv(x) == Norm(x.d, x.n)

RDiv(x, y) == RMul(x, RInv(y))

RLe(x, y) == RSub(x, y).n <= 0

RLt(x, y) == RSub(x, y).n < 0

RMaxRight(x, y) == y

RMax(x, y) == IF RLt(x, y) THEN y ELSE x

RECURSIVE RSum(_)
RSum(s) == IF s = <<>> THEN RInt(0) ELSE RAdd(Head(s), RSum(Tail(s)))

(***************************************************************************)
(* Binary64 arithmetic.  Where the code decides by comparing floats, or    *)
(* returns a float it computed from floats, the value is computed on the   *)
(* doubles themselves.  A finite double is sign * (hi * Split + lo) * 2^e, *)
(* a significand of exactly 53 bits held in two parts                      *)
(* (Split <= hi < 2 * Split, 0 <= lo < Split, Split = 2^26), or zero.      *)
(* Every operation returns the double nearest to the exact result, ties to *)
(* even, as IEEE 754 prescribes; exponents are unbounded (no value of the  *)
(* model comes near the overflow or subnormal range).  Wider intermediate  *)
(* values are held in limbs of LimbBits bits.  An intermediate value that  *)
(* is used more than once is handed on as an operator argument.            *)
(***************************************************************************)
LimbBits == 13

Limb == 2^LimbBits

Split == Limb * Limb

MantissaBits == 53

GuardBits == 3

Wide == Split * 2^GuardBits

FZero == [sign |-> 0, hi |-> 0, lo |-> 0, e |-> 0]

(* The digits, base Limb and least significant first, of the number whose  *)
(* columns are cols; the last digit keeps what is left, sign included.     *)
RECURSIVE DigitsAt(_, _, _)
DigitsAt(cols, i, v) ==
    IF i = Len(cols) THEN <<v>>
    ELSE <<v % Limb>> \o DigitsAt(cols, i + 1, cols[i + 1] + (v \div Limb))

Digits(cols) == DigitsAt(cols, 1, cols[1])

(* -1, 0 or 1 as the number of these digits is below, at or above zero.    *)
DigitsSign(d) ==
    IF d[Len(d)] < 0 THEN -1
    ELSE IF \A i \in 1..Len(d) : d[i] = 0 THEN 0
    ELSE 1

(* A significand below 2^53 brought up to 53 bits; nothing is lost.        *)
RECURSIVE FNormal(_, _, _, _)
FNormal(sign, hi, lo, e) ==
    IF hi >= Split THEN [sign |-> sign, hi |-> hi, lo |-> lo, e |-> e]
    ELSE IF hi = 0 /\ lo = 0 THEN FZero
    ELSE IF hi < Limb
    THEN FNormal(sign, hi * Limb + (lo \div Limb), (lo % Limb) * Limb, e - LimbBits)
    ELSE FNormal(sign, 2 * hi + ((2 * lo) \div Split), (2 * lo) % Split, e - 1)

(* The kept 53 bits, one unit more when up.                                *)
FRoundUp(sign, hi, lo, e, up) ==
    IF ~up THEN [sign |-> sign, hi |-> hi, lo |-> lo, e |-> e]
    ELSE IF lo + 1 < Split THEN [sign |-> sign, hi |-> hi, lo |-> lo + 1, e |-> e]
    ELSE IF hi + 1 < 2 * Split THEN [sign |-> sign, hi |-> hi + 1, lo |-> 0, e |-> e]
    ELSE [sign |-> sign, hi |-> Split, lo |-> 0, e |-> e + 1]

(* H * Wide + L loses its drop lowest bits (at most GuardBits) and keeps   *)
(* 53; half is the highest bit lost, rest whether anything lies below it.  *)
FRoundDrop(sign, H, L, e, sticky, drop) ==
    FRoundUp(sign,
             H * 2^(GuardBits - drop) + (L \div (Split * 2^drop)),
             (L \div 2^drop) % Split,
             e + drop,
             /\ (L \div 2^(drop - 1)) % 2 = 1
             /\ \/ sticky
                \/ L % 2^(drop - 1) # 0
                \/ (L \div 2^drop) % 2 = 1)

(* sign * (H * Wide + L) * 2^e, plus a positive amount below one unit when *)
(* sticky, rounded to 53 bits; L < Wide.                                   *)
RECURSIVE FRound(_, _, _, _, _)
FRound(sign, H, L, e, sticky) ==
    IF H >= 2 * Split
    THEN FRound(sign, H \div 2, (H % 2) * (Wide \div 2) + (L \div 2), e + 1,
                sticky \/ L % 2 = 1)
    ELSE IF H >= Split THEN FRoundDrop(sign, H, L, e, sticky, 3)
    ELSE IF 2 * H >= Split THEN FRoundDrop(sign, H, L, e, sticky, 2)
    ELSE IF 4 * H >= Split THEN FRoundDrop(sign, H, L, e, sticky, 1)
    ELSE FNormal(sign, H * 2^GuardBits + (L \div Split), L % Split, e)

FInt(k) ==
    IF k < 0 THEN FNormal(-1, (-k) \div Split, (-k) % Split, 0)
    ELSE FNormal(1, k \div Split, k % Split, 0)

FNeg(x) == [x EXCEPT !.sign = -@]

(* |x| <= |y| for doubles other than zero: significands have 53 bits, so   *)
(* magnitudes of different exponents are ordered as their exponents.       *)
FMagnitudeLe(x, y) ==
    \/ x.e < y.e
    \/ x.e = y.e /\ (x.hi < y.hi \/ (x.hi = y.hi /\ x.lo <= y.lo))

(* The bit below the guard bits stands for everything lost in aligning.    *)
Jam(L, lost) == IF lost /\ L % 2 = 0 THEN L + 1 ELSE L

FAddWide(sign, XH, XL, YH, YL, same, e) ==
    IF same
    THEN FRound(sign, XH + YH + ((XL + YL) \div Wide), (XL + YL) % Wide, e, FALSE)
    ELSE FRound(sign, XH - YH + ((XL - YL) \div Wide), (XL - YL) % Wide, e, FALSE)

(* |x| >= |y| and y is d binary places below x.                            *)
FAddShifted(x, y, d) ==
    IF d < LimbBits + LimbBits + GuardBits
    THEN FAddWide(x.sign, x.hi, x.lo * 2^GuardBits,
                  y.hi \div 2^d,
                  Jam((y.hi % 2^d) * 2^(LimbBits + LimbBits + GuardBits - d)
                          + ((y.lo * 2^GuardBits) \div 2^d),
                      (y.lo * 2^GuardBits) % 2^d # 0),
                  x.sign = y.sign, x.e - GuardBits)
    ELSE FAddWide(x.sign, x.hi, x.lo * 2^GuardBits,
                  0,
                  Jam(y.hi \div 2^(d - (LimbBits + LimbBits + GuardBits)),
                      y.hi % 2^(d - (LimbBits + LimbBits + GuardBits)) # 0 \/ y.lo # 0),
                  x.sign = y.sign, x.e - GuardBits)

(* Further apart than this the smaller operand cannot change the result.  *)
MaxAlign == MantissaBits + 2

FAddOrdered(x, y) ==
    IF x.e - y.e > MaxAlign THEN x ELSE FAddShifted(x, y, x.e - y.e)

FAdd(x, y) ==
    IF x.sign = 0 THEN y
    ELSE IF y.sign = 0 THEN x
    ELSE IF FMagnitudeLe(y, x) THEN FAddOrdered(x, y)
    ELSE FAddOrdered(y, x)

FSub(x, y) == FAdd(x, FNeg(y))

(* The product of two significands in columns of limbs, the top limbs of   *)
(* the factors being the 14 top bits.                                      *)
FMulRound(sign, e, d) ==
    FRound(sign, d[7] \div 2,
           (d[7] % 2) * (Wide \div 2) + d[6] * (4 * Limb) + d[5] * 4
               + (d[4] \div (Limb \div 4)),
           e,
           d[4] % (Limb \div 4) # 0 \/ d[3] # 0 \/ d[2] # 0 \/ d[1] # 0)

FMulLimbs(sign, e, x0, x1, x2, x3, y0, y1, y2, y3) ==
    FMulRound(sign, e,
              Digits(<<x0 * y0,
                       x0 * y1 + x1 * y0,
                       x0 * y2 + x1 * y1 + x2 * y0,
                       x0 * y3 + x1 * y2 + x2 * y1 + x3 * y0,
                       x1 * y3 + x2 * y2 + x3 * y1,
                       x2 * y3 + x3 * y2,
                       x3 * y3>>))

ProductShift == MantissaBits - GuardBits

FMul(x, y) ==
    IF x.sign = 0 \/ y.sign = 0 THEN FZero
    ELSE FMulLimbs(x.sign * y.sign, x.e + y.e + ProductShift,
                   x.lo % Limb, x.lo \div Limb, x.hi % Limb, x.hi \div Limb,
                   y.lo % Limb, y.lo \div Limb, y.hi % Limb, y.hi \div Limb)

(* Long division of significands: r is the remainder in four limbs (the    *)
(* top one unreduced) and below the divisor d; the next quotient limb is   *)
(* estimated from the top bits and is at most two too large.              *)
RECURSIVE FDivFix(_, _, _)
FDivFix(q, v, d) ==
    IF v[5] >= 0 THEN [q |-> q, r |-> <<v[1], v[2], v[3], v[4] + v[5] * Limb>>]
    ELSE FDivFix(q - 1,
                 Digits(<<v[1] + d[1], v[2] + d[2], v[3] + d[3], v[4] + d[4], v[5]>>),
                 d)

FDivDigit(r, d, q) ==
    FDivFix(q,
            Digits(<<0 - q * d[1], r[1] - q * d[2], r[2] - q * d[3],
                     r[3] - q * d[4], r[4]>>),
            d)

FDivGuess(top) == IF top < Limb THEN top ELSE Limb - 1

FDivStep(r, d) ==
    FDivDigit(r, d,
              FDivGuess((r[4] * (Limb \div 2) + (r[3] \div 2)) \div (d[4] \div 2)))

RECURSIVE FDivSteps(_, _, _, _)
FDivNext(s, d, n, qs) == FDivSteps(s.r, d, n - 1, Append(qs, s.q))

FDivSteps(r, d, n, qs) ==
    IF n = 0 THEN [q |-> qs, r |-> r] ELSE FDivNext(FDivStep(r, d), d, n, qs)

QuotientLimbs == 5

QuotientShift == MantissaBits + 2

FDivRound(sign, e, q0, qr) ==
    FRound(sign,
           (q0 * Limb + qr.q[1]) * Limb + qr.q[2],
           (qr.q[3] * Limb + qr.q[4]) * 2^GuardBits + (qr.q[5] \div (Limb \div 8)),
           e,
           qr.q[5] % (Limb \div 8) # 0 \/ qr.r # <<0, 0, 0, 0>>)

FDivFrom(sign, e, x, d, q0) ==
    FDivRound(sign, e, q0,
              FDivSteps(Digits(<<x[1] - q0 * d[1], x[2] - q0 * d[2],
                                 x[3] - q0 * d[3], x[4] - q0 * d[4]>>),
                        d, QuotientLimbs, <<>>))

FLimbs(x) == <<x.lo % Limb, x.lo \div Limb, x.hi % Limb, x.hi \div Limb>>

FDiv(x, y) ==
    IF x.sign = 0 THEN FZero
    ELSE IF x.hi = y.hi /\ x.lo = y.lo
    THEN [sign |-> x.sign * y.sign, hi |-> Split, lo |-> 0,
          e |-> x.e - y.e - (MantissaBits - 1)]
    ELSE FDivFrom(x.sign * y.sign, x.e - y.e - QuotientShift, FLimbs(x), FLimbs(y),
                  IF x.hi > y.hi \/ (x.hi = y.hi /\ x.lo >= y.lo) THEN 1 ELSE 0)

(* The order of two doubles: -1, 0 or 1.                                   *)
FCmp(x, y) ==
    IF x.sign # y.sign THEN (IF x.sign < y.sign THEN -1 ELSE 1)
    ELSE IF x = y THEN 0
    ELSE IF FMagnitudeLe(x, y) THEN -x.sign
    ELSE x.sign

FLe(x, y) == FCmp(x, y) <= 0

FLt(x, y) == FCmp(x, y) < 0

FHalf(x) == IF x.sign = 0 THEN x ELSE [x EXCEPT !.e = @ - 1]

(* The integer square root, by Newton's iteration from above.              *)
RECURSIVE IntRoot(_, _)
IntRootNext(n, s, t) == IF t >= s THEN s ELSE IntRoot(n, t)

IntRoot(n, s) == IntRootNext(n, s, (s + (n \div s)) \div 2)

(* The sign of t - c * c - k * c, with t = (thi * Split + tlo) * Split^2   *)
(* and c = chi * Split + clo.                                              *)
RootSignLimbs(t4, t5, t6, c0, c1, c2, c3, k) ==
    DigitsSign(Digits(<<0 - c0 * c0 - k * c0,
                        0 - 2 * c0 * c1 - k * c1,
                        0 - 2 * c0 * c2 - c1 * c1 - k * c2,
                        0 - 2 * c0 * c3 - 2 * c1 * c2 - k * c3,
                        t4 - 2 * c1 * c3 - c2 * c2,
                        t5 - 2 * c2 * c3,
                        t6 - c3 * c3>>))

RootSign(thi, tlo, chi, clo, k) ==
    RootSignLimbs(tlo % Limb, tlo \div Limb, thi,
                  clo % Limb, clo \div Limb, chi % Limb, chi \div Limb, k)

(* The floor of the square root of t, from an estimate c of it, and        *)
(* whether the root is above c + 1/2, that is t > c * c + c.               *)
RECURSIVE RootFloor(_, _, _, _)
RootFloor(thi, tlo, chi, clo) ==
    IF RootSign(thi, tlo, chi, clo, 0) < 0
    THEN IF clo = 0 THEN RootFloor(thi, tlo, chi - 1, Split - 1)
         ELSE RootFloor(thi, tlo, chi, clo - 1)
    ELSE IF RootSign(thi, tlo, chi, clo, 2) > 0
    THEN IF clo + 1 = Split THEN RootFloor(thi, tlo, chi + 1, 0)
         ELSE RootFloor(thi, tlo, chi, clo + 1)
    ELSE [hi |-> chi, lo |-> clo, up |-> RootSign(thi, tlo, chi, clo, 1) > 0]

FSqrtRound(c, e) == FRoundUp(1, c.hi, c.lo, e, c.up)

(* The whole part of an estimate y whose exponent is -1, 0 or 1.           *)
FSqrtWhole(thi, tlo, y, e) ==
    IF y.e = 0 THEN FSqrtRound(RootFloor(thi, tlo, y.hi, y.lo), e)
    ELSE IF y.e > 0
    THEN FSqrtRound(RootFloor(thi, tlo, 2 * y.hi + ((2 * y.lo) \div Split),
                              (2 * y.lo) % Split), e)
    ELSE FSqrtRound(RootFloor(thi, tlo, y.hi \div 2,
                              (y.hi % 2) * (Split \div 2) + (y.lo \div 2)), e)

FSqrtStep(t, y) == FHalf(FAdd(y, FDiv(t, y)))

NewtonSteps == 2

RECURSIVE FSqrtNewton(_, _, _)
FSqrtNewton(t, y, n) == IF n = 0 THEN y ELSE FSqrtNewton(t, FSqrtStep(t, y), n - 1)

RootShift == MantissaBits - 1

(* x = t * 2^(2 * e) with t = (thi * Split + tlo) * 2^RootShift, which is  *)
(* the double tval; the root of t has 53 bits.                             *)
FSqrtOf(tval, thi, tlo, e) ==
    FSqrtWhole(thi, tlo,
               FSqrtNewton(tval,
                           [sign |-> 1, hi |-> IntRoot(thi, 2 * Limb) * Limb,
                            lo |-> 0, e |-> 0],
                           NewtonSteps),
               e)

FSqrt(x) ==
    IF x.sign = 0 THEN FZero
    ELSE IF x.e % 2 = 0
    THEN FSqrtOf([x EXCEPT !.e = RootShift], x.hi, x.lo, (x.e - RootShift) \div 2)
    ELSE FSqrtOf([x EXCEPT !.e = RootShift + 1],
                 2 * x.hi + ((2 * x.lo) \div Split), (2 * x.lo) % Split,
                 (x.e - 1 - RootShift) \div 2)

(* The double nearest to the rational x.                                   *)
FOfRational(x) == FDiv(FInt(x.n), FInt(x.d))

(***************************************************************************)
(* Program constants of run_backtest.                                      *)
(***************************************************************************)
IndicatorFloor == 200

WindowFactor == 2

WarmupExtra == 50

EntryFractionNum == 99

EntryFractionDen == 100

MaxLookbackNoFloor(fibo) == fibo

MaxLookbackNeeded(fibo) == IF fibo > IndicatorFloor THEN fibo ELSE IndicatorFloor

WindowLimit(fibo) == MaxLookbackNeeded(fibo) * WindowFactor

WarmupLength(fibo) == fibo + WarmupExtra

(***************************************************************************)
(* Bounds of the model and the inputs of each specification.               *)
(***************************************************************************)
MaxRows == 55

MaxRowsWindow == 465

InitialCapital == 10000

Closes == {1, 2}

ChunkLens == {1, 50, 51}

Commissions == {R(0, 1), R(1, 99), R(1, 9)}

StopLosses == {R(1, 2)}

Fibos == {1}

DateRanges(rows) == {[start |-> 1, end |-> rows], [start |-> 2, end |-> rows - 1]}

StrategyApis == {"pair", "source"}

Symbols == {"BTC/USDT"}

Timeframes == {"1h"}

(***************************************************************************)
(* strategy_api is the strategy module the import of line 233 finds.       *)
(* "source": src/strategy.py as it is.  The module does not compile        *)
(* (unmatched ')' at its line 221; with that repaired its annotations use  *)
(* pd, which it never imports), so the import raises inside the try of     *)
(* run_backtest, which returns the error result before the first chunk is  *)
(* read.  "pair": a module whose evaluators have the interface the call    *)
(* sites of run_backtest use (five arguments, a (signal, score) pair       *)
(* returned); what they answer at a bar is an input of that bar.           *)
(***************************************************************************)
VARIABLES
    params,               \* the run's arguments, fixed for the run
    strategy_api,         \* the strategy module the import finds
    pc,                   \* "chunks": between chunks, "bars": inside a chunk, "done"
    csv_pos,              \* rows of the CSV file already yielded in chunks
    strategy_df,          \* index of the retained rolling window
    df_index,             \* index of df_with_indicators, NoFrame when it is None
    last_close,           \* df_with_indicators['close'].iloc[-1], once read
    pending,              \* rows of the current chunk still to iterate
    in_position, entry_price, position_size, entry_timestamp,
    trades,               \* the loop's local trade list
    processed_candles_count,
    capital, position, peak_capital, max_drawdown,
    total_trades, winning_trades, losing_trades,
    portfolio_values, engine_trades,
    row,                  \* the bar the loop handled last, with what it did there
    results,              \* the returned dict
    call,                 \* the last direct call of a strategy function
    doubles               \* capital, position_size and the samples as doubles

vars == <<params, strategy_api, pc, csv_pos, strategy_df, df_index, last_close,
          pending, in_position, entry_price, position_size, entry_timestamp,
          trades, processed_candles_count, capital, position, peak_capital,
          max_drawdown, total_trades, winning_trades, losing_trades,
          portfolio_values, engine_trades, row, results, call, doubles>>

NoRow == [timestamp |-> 0]

NoCall == [fn |-> "none"]

NoResults == [status |-> "running"]

ErrorResults == [status |-> "error"]

NoFrame == <<>>

(***************************************************************************)
(* The state in which run_backtest reaches the chunk loop:                 *)
(* BacktestEngine.__init__, the import of the strategy module and the      *)
(* locals set before the loop.  When the import raises, run_backtest has   *)
(* returned the error result (lines 429-431) with the engine as            *)
(* constructed.                                                            *)
(***************************************************************************)
ImportStrategy(api) == IF api = "source" THEN "raises" ELSE "imported"

InitWith(rows, commissions, stops, fibos, apis, timeframes) ==
    /\ params \in [symbol : Symbols,
                   timeframe : timeframes,
                   initial_capital : {InitialCapital},
                   commission : commissions,
                   stop_loss_percent : stops,
                   fibo_lookback_period : fibos,
                   range : DateRanges(rows)]
    /\ strategy_api \in apis
    /\ pc = IF ImportStrategy(strategy_api) = "raises" THEN "done" ELSE "chunks"
    /\ csv_pos = 0
    /\ strategy_df = <<>>
    /\ df_index = NoFrame
    /\ last_close = 0
    /\ pending = <<>>
    /\ in_position = FALSE
    /\ entry_price = 0
    /\ position_size = RInt(0)
    /\ entry_timestamp = 0
    /\ trades = <<>>
    /\ processed_candles_count = 0
    /\ capital = RInt(params.initial_capital)
    /\ position = 0
    /\ peak_capital = RInt(params.initial_capital)
    /\ max_drawdown = RInt(0)
    /\ total_trades = 0
    /\ winning_trades = 0
    /\ losing_trades = 0
    /\ portfolio_values = <<>>
    /\ engine_trades = <<>>
    /\ row = NoRow
    /\ results = IF ImportStrategy(strategy_api) = "raises" THEN ErrorResults
                 ELSE NoResults
    /\ call = NoCall
    /\ doubles = [capital |-> FInt(params.initial_capital),
                  position_size |-> FZero,
                  values |-> <<>>]

Init == InitWith(MaxRows, Commissions, StopLosses, Fibos, StrategyApis, Timeframes)

(***************************************************************************)
(* One iteration of the chunk loop up to the start of the bar loop.  The   *)
(* file yields its rows in chunks of some length of lens.                  *)
(* calculate_indicators returns the frame it is given, with the same index *)
(* and more columns, or None (a missing OHLCV column, or any exception of  *)
(* an indicator routine); which of the two is an input of the chunk:       *)
(* fails holds the file positions of the chunks on which None may come     *)
(* back.                                                                   *)
(***************************************************************************)
RawChunk(from, n) == [k \in 1..n |-> from + k]

FilterRange(chunk, range) ==
    SelectSeq(chunk, LAMBDA t : t >= range.start /\ t <= range.end)

TrimWindowOldest(df, fibo) ==
    IF Len(df) > WindowLimit(fibo) THEN SubSeq(df, 1, WindowLimit(fibo)) ELSE df

TrimWindow(df, fibo) ==
    IF Len(df) > WindowLimit(fibo)
    THEN SubSeq(df, Len(df) - WindowLimit(fibo) + 1, Len(df))
    ELSE df

GetLoc(index, t) == CHOOSE k \in 1..Len(index) : index[k] = t

StartIndexForChunk(index, chunk_df) ==
    IF \E k \in 1..Len(index) : index[k] = chunk_df[1]
    THEN GetLoc(index, chunk_df[1]) - 1
    ELSE 0

Occurrences(index, t) == Cardinality({k \in 1..Len(index) : index[k] = t})

ReadChunk(stamp, from, n) == [k \in 1..n |-> stamp[RawChunk(from, n)[k]]]

IndicatorOutcomes(from, fails) ==
    IF from \in fails THEN {"frame", "none"} ELSE {"frame"}

CalculateIndicators(df, outcome) == IF outcome = "none" THEN NoFrame ELSE df

(***************************************************************************)
(* stamp[k] is the timestamp of row k of the file.  A chunk with no row in *)
(* the date range is skipped before the window is touched.  When           *)
(* calculate_indicators returns None the chunk is skipped after the window *)
(* was extended and trimmed: none of its bars is iterated, and             *)
(* df_with_indicators is None from then on until a later chunk rebinds it. *)
(* When the label of the chunk's first row occurs more than once in the    *)
(* (sorted) index, get_loc returns a slice, slicing iloc from it raises    *)
(* TypeError, and the run ends in the error result.                        *)
(***************************************************************************)
LoadChunkOf(stamp, lens, rows, fails) ==
    /\ pc = "chunks"
    /\ \E n \in lens, outcome \in IndicatorOutcomes(csv_pos, fails) :
        /\ csv_pos + n <= rows
        /\ csv_pos' = csv_pos + n
        /\ LET chunk_df == FilterRange(ReadChunk(stamp, csv_pos, n), params.range)
               window == TrimWindow(strategy_df \o chunk_df, params.fibo_lookback_period)
               df_with_indicators == CalculateIndicators(window, outcome)
           IN  IF chunk_df = <<>>
               THEN /\ outcome = "frame"
                    /\ UNCHANGED <<strategy_df, df_index, pending, pc, results>>
               ELSE IF df_with_indicators = NoFrame
               THEN /\ strategy_df' = window
                    /\ df_index' = NoFrame
                    /\ UNCHANGED <<pending, pc, results>>
               ELSE /\ strategy_df' = window
                    /\ df_index' = df_with_indicators
                    /\ IF Occurrences(window, chunk_df[1]) > 1
                       THEN /\ pc' = "done"
                            /\ results' = ErrorResults
                            /\ UNCHANGED pending
                       ELSE /\ pending' = SubSeq(window,
                                                StartIndexForChunk(window, chunk_df) + 1,
                                                Len(window))
                            /\ pc' = "bars"
                            /\ UNCHANGED results
    /\ UNCHANGED <<params, strategy_api, last_close, in_position, entry_price,
                   position_size, entry_timestamp, trades, processed_candles_count,
                   capital, position, peak_capital, max_drawdown, total_trades,
                   winning_trades, losing_trades, portfolio_values, engine_trades,
                   row, call, doubles>>

RowNumbers(rows) == [k \in 1..rows |-> k]

LoadChunk(lens, rows, fails) == LoadChunkOf(RowNumbers(rows), lens, rows, fails)

(***************************************************************************)
(* The pure pieces of one iteration of the bar loop.                       *)
(***************************************************************************)
PortfolioValue(cap, units, price) == RAdd(cap, RMul(RInt(units), RInt(price)))

Drawdown(peak, value) == RDiv(RSub(peak, value), peak)

LookbackWhole(index, t) == index

Lookback(index, t) == SelectSeq(index, LAMBDA u : u <= t)

LookbackLen(index, t) == Cardinality({k \in 1..Len(index) : index[k] <= t})

WarmedUpEarly(index, t, fibo) == ~(LookbackLen(index, t) < fibo)

WarmedUp(index, t, fibo) == ~(LookbackLen(index, t) < WarmupLength(fibo))

EvaluatorsBoth(in_pos) == {"entry", "exit"}

EvaluatorsEntryOnly(in_pos) == {"entry"}

EvaluatorsEntryWhileLong(in_pos) == IF ~in_pos THEN {"entry"} ELSE {"entry", "exit"}

Evaluators(in_pos) == IF ~in_pos THEN {"entry"} ELSE {"exit"}

PositionSizeWhole(cap, price) == RDiv(cap, RInt(price))

PositionSize(cap, price) ==
    RDiv(RMul(cap, R(EntryFractionNum, EntryFractionDen)), RInt(price))

CapitalAfterEntry(cap, size, price, commission) ==
    RSub(cap, RMul(RMul(size, RInt(price)), RAdd(RInt(1), commission)))

(* The same two lines on the doubles of the run: 0.99 and the commission   *)
(* rate are the doubles nearest to their values, and every operation       *)
(* rounds.                                                                 *)
EntryFraction == FOfRational(R(EntryFractionNum, EntryFractionDen))

FloatPositionSize(cap, price) == FDiv(FMul(cap, EntryFraction), FInt(price))

FloatCapitalAfterEntry(cap, size, price, commission) ==
    FSub(cap, FMul(FMul(size, FInt(price)), FAdd(FInt(1), FOfRational(commission))))

(***************************************************************************)
(* current_price <= entry_price * (1 - stop_loss_percent), decided on the  *)
(* doubles: the prices are whole numbers, stop_loss_percent is the double  *)
(* nearest to its value, and the difference and the product are rounded.   *)
(* The three roundings move the right-hand side by less than               *)
(* 3 * 2^-53 * entry * (2 * |n| + d) / d for stop_loss_percent = n / d,    *)
(* which for |entry| < SafeMagnitude is below 1 / d, the least distance of *)
(* a whole price from the exact stop level it does not meet: off the exact *)
(* tie the doubles compare as the exact values do, and on the tie the     *)
(* comparison is computed on the doubles.                                  *)
(***************************************************************************)
SafeMagnitude == 2^15

StopLossExact(price, entry, stop_loss) ==
    RSub(RInt(price), RMul(RInt(entry), RSub(RInt(1), stop_loss)))

StopLossAnyDrop(price, entry, stop_loss) == price < entry

StopLossBreached(price, entry, stop_loss) ==
    IF Abs(entry) < SafeMagnitude /\ StopLossExact(price, entry, stop_loss).n # 0
    THEN StopLossExact(price, entry, stop_loss).n < 0
    ELSE FLe(FInt(price), FMul(FInt(entry), FSub(FInt(1), FOfRational(stop_loss))))

ExitDecision(breach, sell_signal) ==
    IF breach THEN "STOP_LOSS" ELSE IF sell_signal THEN "SELL" ELSE "HOLD"

(***************************************************************************)
(* _calculate_pnl_and_commission.  pnl and commission are the exact values *)
(* of the module header, for the exact position size.  float_pnl and       *)
(* float_commission are the two doubles the function returns, computed     *)
(* operation by operation from float_size, the double position_size the    *)
(* run holds, and from the double nearest to the commission rate;          *)
(* "positive" is the outcome of the test pnl > 0 the callers make on the   *)
(* double they receive.                                                    *)
(***************************************************************************)
FloatNet(entry_value, exit_value, rate) ==
    FSub(FSub(FSub(exit_value, entry_value), FMul(entry_value, rate)),
         FMul(exit_value, rate))

FloatCommission(entry_value, exit_value, rate) ==
    FAdd(FMul(entry_value, rate), FMul(exit_value, rate))

CalculatePnlExitCommissionOnly(entry, exit, size, commission_rate, float_size) ==
    LET exit_value == RMul(size, RInt(exit))
        commission_cost_sell == RMul(exit_value, commission_rate)
        net_pnl == RSub(RSub(exit_value, RMul(size, RInt(entry))), commission_cost_sell)
    IN  [pnl |-> net_pnl, commission |-> commission_cost_sell,
         float_pnl |-> FOfRational(net_pnl),
         float_commission |-> FOfRational(commission_cost_sell),
         positive |-> net_pnl.n > 0]

FloatPnlAndCommission(entry_value, exit_value, rate) ==
    [float_pnl |-> FloatNet(entry_value, exit_value, rate),
     float_commission |-> FloatCommission(entry_value, exit_value, rate)]

PnlRecord(net_pnl, total_commission, floats) ==
    [pnl |-> net_pnl, commission |-> total_commission,
     float_pnl |-> floats.float_pnl,
     float_commission |-> floats.float_commission,
     positive |-> floats.float_pnl.sign > 0]

CalculatePnlAndCommission(entry, exit, size, commission_rate, float_size) ==
    LET entry_value == RMul(size, RInt(entry))
        exit_value == RMul(size, RInt(exit))
        commission_cost_buy == RMul(entry_value, commission_rate)
        commission_cost_sell == RMul(exit_value, commission_rate)
        gross_pnl == RSub(exit_value, entry_value)
        net_pnl == RSub(RSub(gross_pnl, commission_cost_buy), commission_cost_sell)
    IN  PnlRecord(net_pnl, RAdd(commission_cost_buy, commission_cost_sell),
                  FloatPnlAndCommission(FMul(float_size, FInt(entry)),
                                        FMul(float_size, FInt(exit)),
                                        FOfRational(commission_rate)))

CapitalAfterExit(cap, size, exit, commission_cost) ==
    RSub(RAdd(cap, RMul(size, RInt(exit))), commission_cost)

FloatCapitalAfterExit(cap, size, exit, commission_cost) ==
    FAdd(cap, FSub(FMul(size, FInt(exit)), commission_cost))

IsWin(pc_) == pc_.positive

TradeResult(type, pc_) ==
    IF type = "STOP_LOSS" THEN "LOSS" ELSE IF IsWin(pc_) THEN "WIN" ELSE "LOSS"

TradeTimesSwapped(entry_time, exit_time, entry, exit, size, pc_, type) ==
    [entry_time |-> exit_time, exit_time |-> entry_time, entry_price |-> entry,
     exit_price |-> exit, position_size |-> size, pnl |-> pc_.pnl,
     commission |-> pc_.commission, type |-> type,
     result |-> TradeResult(type, pc_)]

Trade(entry_time, exit_time, entry, exit, size, pc_, type) ==
    [entry_time |-> entry_time, exit_time |-> exit_time, entry_price |-> entry,
     exit_price |-> exit, position_size |-> size, pnl |-> pc_.pnl,
     commission |-> pc_.commission, type |-> type,
     result |-> TradeResult(type, pc_)]

(***************************************************************************)
(* One iteration of the bar loop: the sample, the drawdown, the warm-up    *)
(* test and the decision.  buy is what the entry evaluator answers on the  *)
(* window ending at this bar; sell is whether the exit signal holds for    *)
(* the open position on that window, which is what the exit evaluator      *)
(* answers when the loop asks it.  Both are drawn from what the market of  *)
(* the specification allows at this timestamp.  engine.position is never   *)
(* assigned, so the sample the code appends is the double engine.capital.  *)
(***************************************************************************)
ProcessBarAt(closes_at, buys_at, sells_at) ==
    /\ pc = "bars"
    /\ \E close \in closes_at[Head(pending)], buy \in buys_at[Head(pending)],
          sell \in sells_at[Head(pending)] :
        LET timestamp == Head(pending)
            value == PortfolioValue(capital, position, close)
            peak == RMax(peak_capital, value)
            warm == WarmedUp(df_index, timestamp, params.fibo_lookback_period)
            evals == IF warm THEN Evaluators(in_position) ELSE {}
            breach == /\ in_position
                      /\ StopLossBreached(close, entry_price, params.stop_loss_percent)
            decision == IF "exit" \in evals THEN ExitDecision(breach, sell) ELSE "HOLD"
            enters == "entry" \in evals /\ buy
            exits == "exit" \in evals /\ decision # "HOLD"
            size == PositionSize(capital, close)
            pnlc == CalculatePnlAndCommission(entry_price, close, position_size,
                                              params.commission, doubles.position_size)
            float_size == FloatPositionSize(doubles.capital, close)
            rest == Tail(pending)
        IN  /\ (buy => "entry" \in evals)
            /\ (sell => in_position)
            /\ processed_candles_count' = processed_candles_count + 1
            /\ portfolio_values' = Append(portfolio_values,
                                          [timestamp |-> timestamp, value |-> value])
            /\ peak_capital' = peak
            /\ max_drawdown' = RMax(max_drawdown, Drawdown(peak, value))
            /\ last_close' = IF rest = <<>> THEN close ELSE last_close
            /\ pending' = rest
            /\ row' = [timestamp |-> timestamp, close |-> close,
                       window |-> IF evals = {} THEN <<>>
                                  ELSE Lookback(df_index, timestamp),
                       was_long |-> in_position, capital_before |-> capital,
                       size_before |-> position_size, warm |-> warm,
                       evaluated |-> evals, breach |-> breach,
                       buy_signal |-> buy, sell_signal |-> sell,
                       trades_before |-> Len(trades),
                       action |-> IF enters THEN "BUY"
                                  ELSE IF exits THEN decision ELSE "NONE"]
            /\ pc' = IF rest = <<>> THEN "chunks" ELSE "bars"
            /\ IF enters
               THEN /\ entry_price' = close
                    /\ position_size' = size
                    /\ capital' = CapitalAfterEntry(capital, size, close, params.commission)
                    /\ in_position' = TRUE
                    /\ entry_timestamp' = timestamp
                    /\ total_trades' = total_trades + 1
                    /\ doubles' =
                           [capital |-> FloatCapitalAfterEntry(doubles.capital,
                                            float_size, close, params.commission),
                            position_size |-> float_size,
                            values |-> Append(doubles.values, doubles.capital)]
                    /\ UNCHANGED <<trades, winning_trades, losing_trades>>
               ELSE IF exits
               THEN /\ capital' = CapitalAfterExit(capital, position_size, close,
                                                   pnlc.commission)
                    /\ doubles' =
                           [doubles EXCEPT
                               !.capital = FloatCapitalAfterExit(@,
                                               doubles.position_size, close,
                                               pnlc.float_commission),
                               !.values = Append(@, doubles.capital)]
                    /\ trades' = Append(trades,
                                        Trade(entry_timestamp, timestamp, entry_price,
                                              close, position_size, pnlc, decision))
                    /\ in_position' = FALSE
                    /\ winning_trades' = IF decision = "SELL" /\ IsWin(pnlc)
                                         THEN winning_trades + 1 ELSE winning_trades
                    /\ losing_trades' = IF decision = "SELL" /\ IsWin(pnlc)
                                        THEN losing_trades ELSE losing_trades + 1
                    /\ UNCHANGED <<entry_price, position_size, entry_timestamp,
                                   total_trades>>
               ELSE /\ doubles' = [doubles EXCEPT
                                       !.values = Append(@, doubles.capital)]
                    /\ UNCHANGED <<entry_price, position_size, capital, in_position,
                                   entry_timestamp, total_trades, trades,
                                   winning_trades, losing_trades>>
    /\ UNCHANGED <<params, strategy_api, csv_pos, strategy_df, df_index, position,
                   engine_trades, results, call>>

ProcessBar(closes_at, signals) ==
    ProcessBarAt(closes_at, [t \in DOMAIN closes_at |-> signals],
                 [t \in DOMAIN closes_at |-> signals])

(***************************************************************************)
(* _get_timeframe_minutes: the timeframe map and its default.              *)
(***************************************************************************)
TimeframeMap ==
    [tf \in {"1m", "5m", "15m", "30m", "1h", "2h", "4h", "6h", "8h", "12h",
             "1d", "3d", "1w"} |->
        CASE tf = "1m" -> 1 [] tf = "5m" -> 5 [] tf = "15m" -> 15
          [] tf = "30m" -> 30 [] tf = "1h" -> 60 [] tf = "2h" -> 120
          [] tf = "4h" -> 240 [] tf = "6h" -> 360 [] tf = "8h" -> 480
          [] tf = "12h" -> 720 [] tf = "1d" -> 1440 [] tf = "3d" -> 4320
          [] tf = "1w" -> 10080]

DefaultTimeframeMinutes == 60

GetTimeframeMinutes(timeframe) ==
    IF timeframe \in DOMAIN TimeframeMap THEN TimeframeMap[timeframe]
    ELSE DefaultTimeframeMinutes

(***************************************************************************)
(* _calculate_sharpe_ratio over the 'value' column of the samples, a list  *)
(* of doubles, computed as pandas and numpy compute it.  pct_change is     *)
(* value / previous value - 1: after a previous value of zero it is an     *)
(* infinity, or NaN for 0 / 0, and dropna removes the NaN rows (the first  *)
(* row among them).  A sum is numpy's add.reduce: up to UnrollWidth - 1    *)
(* terms are added left to right; up to PairwiseBlock terms are added in   *)
(* UnrollWidth interleaved lanes, the lanes are added in pairs and the     *)
(* terms left over after the last full row of lanes are added one by one;  *)
(* a longer list is split near its middle at a multiple of UnrollWidth and *)
(* the sums of the two parts are added.  mean is the sum over the count;   *)
(* std (ddof = 1) is the square root of the sum of the squares of          *)
(* (mean - return) over count - 1, and is NaN for a single return and for  *)
(* a list with an infinite return.  The test std_return == 0 is made on    *)
(* the double.  annualization_factor ** 0.5 is the correctly rounded       *)
(* square root for every factor of the timeframe map.  The result is 0.0,  *)
(* NaN or a double other than zero.                                        *)
(***************************************************************************)
MinutesPerDay == 1440

DaysPerYear == 365

SharpeZero == [kind |-> "zero"]

SharpeNaN == [kind |-> "nan"]

(* What a division by zero leaves in a list of doubles: records outside    *)
(* the finite doubles (whose hi is never zero unless they are zero).       *)
FNaN == [sign |-> 0, hi |-> 0, lo |-> 0, e |-> 1]

FInfinity(sign) == [sign |-> sign, hi |-> 0, lo |-> 0, e |-> 1]

IsNaN(x) == x = FNaN

IsInfinite(x) == x.sign # 0 /\ x.hi = 0

(* x / x - 1 is exactly zero for a finite x other than zero.               *)
Return(previous, value) ==
    IF previous.sign = 0
    THEN IF value.sign = 0 THEN FNaN ELSE FInfinity(value.sign)
    ELSE IF value = previous THEN FZero
    ELSE FSub(FDiv(value, previous), FInt(1))

PctChange(values) ==
    [k \in 1..(Len(values) - 1) |-> Return(values[k], values[k + 1])]

DropNa(returns) == SelectSeq(returns, LAMBDA x : ~IsNaN(x))

UnrollWidth == 8

PairwiseBlock == 128

(* acc + a[from] + ... + a[to], left to right.                             *)
RECURSIVE FSumRun(_, _, _, _)
FSumRun(a, from, to, acc) ==
    IF from > to THEN acc ELSE FSumRun(a, from + 1, to, FAdd(acc, a[from]))

(* acc + a[i] + a[i + UnrollWidth] + ... up to a[last].                    *)
RECURSIVE Lane(_, _, _, _)
Lane(a, i, last, acc) ==
    IF i > last THEN acc ELSE Lane(a, i + UnrollWidth, last, FAdd(acc, a[i]))

LaneFrom(a, first, last) == Lane(a, first + UnrollWidth, last, a[first])

Lanes(a, o, last) ==
    FAdd(FAdd(FAdd(LaneFrom(a, o + 1, last), LaneFrom(a, o + 2, last)),
              FAdd(LaneFrom(a, o + 3, last), LaneFrom(a, o + 4, last))),
         FAdd(FAdd(LaneFrom(a, o + 5, last), LaneFrom(a, o + 6, last)),
              FAdd(LaneFrom(a, o + 7, last), LaneFrom(a, o + 8, last))))

(* The sum of the n terms of a after the first o.                          *)
RECURSIVE PairwiseSum(_, _, _)
PairwiseSplit(a, o, n, n2) ==
    FAdd(PairwiseSum(a, o, n2), PairwiseSum(a, o + n2, n - n2))

PairwiseSum(a, o, n) ==
    IF n < UnrollWidth THEN FSumRun(a, o + 1, o + n, FZero)
    ELSE IF n <= PairwiseBlock
    THEN FSumRun(a, o + n - (n % UnrollWidth) + 1, o + n,
                 Lanes(a, o, o + n - (n % UnrollWidth)))
    ELSE PairwiseSplit(a, o, n, (n \div 2) - ((n \div 2) % UnrollWidth))

FSum(s) == PairwiseSum(s, 0, Len(s))

ReturnsMean(returns) == FDiv(FSum(returns), FInt(Len(returns)))

Square(x) == FMul(x, x)

(* mean - 0.0 is the mean: the square for a return of zero is of_zero.     *)
SquaredDeviationsWith(returns, avg, of_zero) ==
    [k \in 1..Len(returns) |->
        IF returns[k].sign = 0 THEN of_zero ELSE Square(FSub(avg, returns[k]))]

SquaredDeviations(returns, avg) == SquaredDeviationsWith(returns, avg, Square(avg))

(* Series.std() with ddof = 1: NaN for a single return.                    *)
ReturnsStdAround(returns, avg) ==
    IF Len(returns) < 2 THEN [defined |-> FALSE]
    ELSE [defined |-> TRUE,
          value |-> FSqrt(FDiv(FSum(SquaredDeviations(returns, avg)),
                               FInt(Len(returns) - 1)))]

ReturnsStd(returns) == ReturnsStdAround(returns, ReturnsMean(returns))

SharpeResult(sharpe_ratio) ==
    IF sharpe_ratio.sign = 0 THEN SharpeZero
    ELSE [kind |-> "number", value |-> sharpe_ratio]

AnnualizationFactor(timeframe_minutes) ==
    FMul(FDiv(FInt(MinutesPerDay), FInt(timeframe_minutes)), FInt(DaysPerYear))

(* annualization_factor ** 0.5 for the minutes of the timeframe map.       *)
AnnualizationRoot ==
    [m \in {TimeframeMap[tf] : tf \in DOMAIN TimeframeMap} |->
        FSqrt(AnnualizationFactor(m))]

SharpeOf(avg_return, std_return, timeframe_minutes) ==
    IF std_return.defined /\ std_return.value.sign = 0 THEN SharpeZero
    ELSE IF ~std_return.defined THEN SharpeNaN
    ELSE SharpeResult(FMul(FDiv(avg_return, std_return.value),
                           AnnualizationRoot[timeframe_minutes]))

SharpeOfReturns(returns, timeframe_minutes) ==
    IF returns = <<>> THEN SharpeZero
    ELSE IF \E k \in 1..Len(returns) : IsInfinite(returns[k]) THEN SharpeNaN
    ELSE SharpeOf(ReturnsMean(returns), ReturnsStd(returns), timeframe_minutes)

CalculateSharpeRatio(values, timeframe_minutes) ==
    IF Len(values) < 2 THEN SharpeZero
    ELSE SharpeOfReturns(DropNa(PctChange(values)), timeframe_minutes)

(***************************************************************************)
(* After the chunk loop: the forced close of an open position and the      *)
(* summary.  The CSV file may end at any chunk boundary.  With a position  *)
(* open while df_with_indicators is None (the last chunk with rows in      *)
(* range got no indicators), reading the exit price of line 368 raises     *)
(* TypeError after the loop's trades were handed to the engine, and        *)
(* run_backtest returns the error result.                                  *)
(***************************************************************************)
ForcedExitPrice(closeOfLastRow, entry) == closeOfLastRow

TotalReturnPercent(final, initial) ==
    RMul(RDiv(RSub(final, RInt(initial)), RInt(initial)), RInt(100))

WinRateFraction(winning, total) ==
    IF total > 0 THEN R(winning, total) ELSE RInt(0)

WinRatePercent(winning, total) ==
    IF total > 0 THEN RMul(R(winning, total), RInt(100)) ELSE RInt(0)

ReportedMaxDrawdown(mdd) == mdd

(* serialize_results_to_json: str() of a timestamp is modelled as the      *)
(* timestamp moved by StrBase, outside the range of timestamps; str() of a *)
(* string is the string itself.  results.copy() is a shallow copy, so the  *)
(* trade and sample records that are rewritten are the ones the engine's   *)
(* lists hold.                                                             *)
StrBase == 1000000

IsStr(x) == x > StrBase

Str(x) == IF IsStr(x) THEN x ELSE StrBase + x

TimeOf(x) == IF IsStr(x) THEN x - StrBase ELSE x

SerializeTrades(ts) ==
    [k \in 1..Len(ts) |->
        [ts[k] EXCEPT !.entry_time = IF @ # 0 THEN Str(@) ELSE @,
                      !.exit_time = IF @ # 0 THEN Str(@) ELSE @]]

SerializeSamples(pvs) ==
    [k \in 1..Len(pvs) |-> [pvs[k] EXCEPT !.timestamp = Str(@)]]

SerializeResultsToJson(results_copy) ==
    [results_copy EXCEPT !.trades = SerializeTrades(@),
                         !.portfolio_values = SerializeSamples(@)]

Finalize ==
    /\ pc = "chunks"
    /\ IF in_position /\ df_index = NoFrame
       THEN /\ engine_trades' = trades
            /\ results' = ErrorResults
            /\ UNCHANGED <<capital, trades, portfolio_values, winning_trades,
                           losing_trades, row, doubles>>
       ELSE
       LET exit_price == ForcedExitPrice(last_close, entry_price)
           exit_time == df_index[Len(df_index)]
           pnlc == CalculatePnlAndCommission(entry_price, exit_price, position_size,
                                             params.commission, doubles.position_size)
           final_capital == IF in_position
                            THEN CapitalAfterExit(capital, position_size, exit_price,
                                                  pnlc.commission)
                            ELSE capital
           won == in_position /\ IsWin(pnlc)
           lost == in_position /\ ~IsWin(pnlc)
           all_trades == IF in_position
                         THEN Append(trades,
                                     Trade(entry_timestamp, exit_time, entry_price,
                                           exit_price, position_size, pnlc,
                                           "CLOSE_POSITION"))
                         ELSE trades
           winning == IF won THEN winning_trades + 1 ELSE winning_trades
       IN  /\ capital' = final_capital
           /\ doubles' = IF in_position
                         THEN [doubles EXCEPT
                                  !.capital = FloatCapitalAfterExit(@,
                                                  doubles.position_size, exit_price,
                                                  pnlc.float_commission)]
                         ELSE doubles
           /\ engine_trades' = SerializeTrades(all_trades)
           /\ trades' = SerializeTrades(trades)
           /\ portfolio_values' = SerializeSamples(portfolio_values)
           /\ winning_trades' = winning
           /\ losing_trades' = IF lost THEN losing_trades + 1 ELSE losing_trades
           /\ row' = IF in_position
                     THEN [row EXCEPT !.was_long = TRUE, !.capital_before = capital,
                                      !.size_before = position_size,
                                      !.evaluated = {}, !.breach = FALSE,
                                      !.buy_signal = FALSE, !.sell_signal = FALSE,
                                      !.trades_before = Len(trades),
                                      !.action = "CLOSE_POSITION"]
                     ELSE row
           /\ results' = SerializeResultsToJson(
                         [status |-> "ok",
                          symbol |-> params.symbol,
                          timeframe |-> params.timeframe,
                          start_date |-> params.range.start,
                          end_date |-> params.range.end,
                          initial_capital |-> params.initial_capital,
                          final_capital |-> final_capital,
                          total_return_percent |->
                              TotalReturnPercent(final_capital, params.initial_capital),
                          total_trades |-> total_trades,
                          winning_trades |-> winning,
                          losing_trades |-> IF lost THEN losing_trades + 1
                                            ELSE losing_trades,
                          win_rate_percent |-> WinRatePercent(winning, total_trades),
                          max_drawdown_percent |-> ReportedMaxDrawdown(max_drawdown),
                          sharpe_ratio |->
                              CalculateSharpeRatio(doubles.values,
                                  GetTimeframeMinutes(params.timeframe)),
                          trades |-> all_trades,
                          portfolio_values |-> portfolio_values])
    /\ pc' = "done"
    /\ UNCHANGED <<params, strategy_api, csv_pos, strategy_df, df_index, last_close,
                   pending, in_position, entry_price, position_size, entry_timestamp,
                   processed_candles_count, position, peak_capital,
                   max_drawdown, total_trades, call>>

(***************************************************************************)
(* Specifications.  Spec: any market over the closes of Closes, both       *)
(* evaluator interfaces.  SpecWindow: long files in large chunks on a      *)
(* quiet market (no evaluator ever fires), for the rolling window.         *)
(* SpecExtreme: a market that crashes and then spikes, at a high           *)
(* commission rate.                                                        *)
(***************************************************************************)
AnyClose(rows) == [t \in 1..rows |-> Closes]

IndicatorFailures == {0, 51, 52, 53, 54}

NoFailures == {}

Next ==
    \/ LoadChunk(ChunkLens, MaxRows, IndicatorFailures)
    \/ ProcessBar(AnyClose(MaxRows), BOOLEAN)
    \/ Finalize

Spec == Init /\ [][Next]_vars

WindowChunkLens == {60, 400, 401}

QuietClose(rows) == [t \in 1..rows |-> {1}]

InitWindow == InitWith(MaxRowsWindow, {R(0, 1)}, StopLosses, Fibos, {"pair"}, Timeframes)

NextWindow ==
    \/ LoadChunk(WindowChunkLens, MaxRowsWindow, NoFailures)
    \/ ProcessBar(QuietClose(MaxRowsWindow), {FALSE})
    \/ Finalize

SpecWindow == InitWindow /\ [][NextWindow]_vars

(* SpecLookback: the quiet market of SpecWindow with a lookback below and  *)
(* a lookback above the floor of 200.                                      *)
WideFibos == {1, 201}

InitLookback == InitWith(MaxRowsWindow, {R(0, 1)}, StopLosses, WideFibos, {"pair"}, Timeframes)

SpecLookback == InitLookback /\ [][NextWindow]_vars

CrashRow == 51

SpikeRow == 54

SpikeClose == 2048

CrashSpikeClose(rows) ==
    [t \in 1..rows |-> IF t <= CrashRow THEN {2}
                       ELSE IF t < SpikeRow THEN {1} ELSE {SpikeClose}]

ExtremeChunkLens == {1, 51}

AnySignal(rows) == [t \in 1..rows |-> BOOLEAN]

InitExtreme == InitWith(MaxRows, {R(1, 3)}, StopLosses, Fibos, {"pair"}, Timeframes)

NextExtreme ==
    \/ LoadChunk(ExtremeChunkLens, MaxRows, NoFailures)
    \/ ProcessBarAt(CrashSpikeClose(MaxRows), AnySignal(MaxRows), AnySignal(MaxRows))
    \/ Finalize

SpecExtreme == InitExtreme /\ [][NextExtreme]_vars

(***************************************************************************)
(* SpecCarry: a position opened at the end of a chunk of 60 bars at 2 is   *)
(* carried into the next chunk, where the market is at 1 and the exit      *)
(* signal may hold on the first bar.                                       *)
(***************************************************************************)
CarryChunkLens == {60, 400}

DropRow == 61

DropClose(rows) == [t \in 1..rows |-> IF t < DropRow THEN {2} ELSE {1}]

BuysBeforeDrop(rows) ==
    [t \in 1..rows |-> IF t >= DropRow - 2 /\ t < DropRow THEN BOOLEAN ELSE {FALSE}]

SellsAtDrop(rows) == [t \in 1..rows |-> IF t = DropRow THEN BOOLEAN ELSE {FALSE}]

NextCarry ==
    \/ LoadChunk(CarryChunkLens, MaxRowsWindow, NoFailures)
    \/ ProcessBarAt(DropClose(MaxRowsWindow), BuysBeforeDrop(MaxRowsWindow),
                    SellsAtDrop(MaxRowsWindow))
    \/ Finalize

SpecCarry == InitWindow /\ [][NextCarry]_vars

(***************************************************************************)
(* SpecScenario: commission 0.001, stop-loss 0.03, a market at 100 up to   *)
(* the first decided bar and at 97, 98 or 100 after it, with entries on    *)
(* the first two decided bars only.                                        *)
(***************************************************************************)
(* SpecSlide: a market that halves twice, at the commission rate of        *)
(* SpecExtreme.                                                            *)
SlideClose(rows) ==
    [t \in 1..rows |-> IF t <= WarmupLength(1) THEN {4}
                       ELSE IF t <= WarmupLength(1) + 2 THEN {2} ELSE {1}]

NextSlide ==
    \/ LoadChunk(ExtremeChunkLens, MaxRows, NoFailures)
    \/ ProcessBar(SlideClose(MaxRows), BOOLEAN)
    \/ Finalize

SpecSlide == InitExtreme /\ [][NextSlide]_vars

ScenarioClose(rows) ==
    [t \in 1..rows |-> IF t <= WarmupLength(1) THEN {100} ELSE {97, 98, 100}]

ScenarioBuys(rows) ==
    [t \in 1..rows |-> IF t \in {WarmupLength(1), WarmupLength(1) + 1}
                       THEN BOOLEAN ELSE {FALSE}]

ScenarioTimeframes == {"1m", "1h", "1d", "10m"}

InitScenario ==
    InitWith(MaxRows, {R(1, 1000)}, {R(3, 100)}, Fibos, {"pair"}, ScenarioTimeframes)

NextScenario ==
    \/ LoadChunk(ExtremeChunkLens, MaxRows, NoFailures)
    \/ ProcessBarAt(ScenarioClose(MaxRows), ScenarioBuys(MaxRows), AnySignal(MaxRows))
    \/ Finalize

SpecScenario == InitScenario /\ [][NextScenario]_vars

(***************************************************************************)
(* SpecRepeated: a file in which row RepeatedRow repeats the timestamp of  *)
(* the row before it (timestamps 1, 2, 2, 3, ...), still sorted, read in   *)
(* chunks that start at neither of the two rows.                           *)
(***************************************************************************)
RepeatedRow == 3

RepeatedChunkLens == {3, 51}

RepeatedStamps(rows) == [k \in 1..rows |-> IF k >= RepeatedRow THEN k - 1 ELSE k]

InitRepeated == InitWith(MaxRows, {R(0, 1)}, StopLosses, Fibos, {"pair"}, Timeframes)

NextRepeated ==
    \/ LoadChunkOf(RepeatedStamps(MaxRows), RepeatedChunkLens, MaxRows, NoFailures)
    \/ ProcessBar(AnyClose(MaxRows), BOOLEAN)
    \/ Finalize

SpecRepeated == InitRepeated /\ [][NextRepeated]_vars

(***************************************************************************)
(* The strategy functions of src/strategy.py, called directly.  A frame is *)
(* [none, columns, rows]: none for the Python value None, the set of its   *)
(* column names, and its rows, oldest first, as records of numbers; NaN    *)
(* stands for an undefined value.  The module is read with pd bound to     *)
(* pandas, as its functions need.                                          *)
(***************************************************************************)
NaN == 0 - 1000

IsNa(x) == x = NaN

Fib50 == R(1, 2)

Fib618 == R(618, 1000)

SwingColumns == {"high", "low"}

BuyRequiredIndicators ==
    {"ema_12", "ema_26", "ema_50", "macd", "macd_signal", "rsi", "adx", "atr",
     "aroon_oscillator", "close"}

SellRequiredIndicators ==
    {"ema_12", "ema_26", "macd", "macd_signal", "atr", "aroon_oscillator", "close"}

Head_(rows, n) == SubSeq(rows, 1, n)

Tail_(rows, n) == SubSeq(rows, Len(rows) - n + 1, Len(rows))

Defined(rows, col) == {rows[k][col] : k \in 1..Len(rows)} \ {NaN}

SeriesMax(rows, col) ==
    IF Defined(rows, col) = {} THEN NaN
    ELSE CHOOSE x \in Defined(rows, col) : \A y \in Defined(rows, col) : y <= x

SeriesMin(rows, col) ==
    IF Defined(rows, col) = {} THEN NaN
    ELSE CHOOSE x \in Defined(rows, col) : \A y \in Defined(rows, col) : x <= y

RECURSIVE SeriesSum(_, _)
SeriesSum(rows, col) ==
    IF rows = <<>> THEN 0
    ELSE (IF IsNa(Head(rows)[col]) THEN 0 ELSE Head(rows)[col])
         + SeriesSum(Tail(rows), col)

SeriesCount(rows, col) == Cardinality({k \in 1..Len(rows) : ~IsNa(rows[k][col])})

SeriesMean(rows, col) == R(SeriesSum(rows, col), SeriesCount(rows, col))

NoSwing == [defined |-> FALSE]

FindRecentSwingHighLow(df, lookback_period) ==
    IF df.none \/ df.rows = <<>> THEN NoSwing
    ELSE IF ~(SwingColumns \subseteq df.columns) THEN NoSwing
    ELSE LET actual_lookback == IF Len(df.rows) < lookback_period
                                THEN Len(df.rows) ELSE lookback_period
             recent_data == Tail_(df.rows, actual_lookback)
             swing_high == SeriesMax(recent_data, "high")
             swing_low == SeriesMin(recent_data, "low")
         IN  IF IsNa(swing_high) \/ IsNa(swing_low) THEN NoSwing
             ELSE IF swing_high <= swing_low THEN NoSwing
             ELSE [defined |-> TRUE, swing_high |-> swing_high,
                   swing_low |-> swing_low]

FiboSupportDefault(swing, current_close) ==
    IF ~swing.defined THEN TRUE
    ELSE LET price_range == RInt(swing.swing_high - swing.swing_low)
             fib_50_level == RSub(RInt(swing.swing_high), RMul(price_range, Fib50))
             fib_618_level == RSub(RInt(swing.swing_high), RMul(price_range, Fib618))
         IN  RLe(fib_618_level, RInt(current_close))
             /\ RLe(RInt(current_close), fib_50_level)

FiboSupport(swing, current_close) ==
    IF ~swing.defined THEN FALSE
    ELSE LET price_range == RInt(swing.swing_high - swing.swing_low)
             fib_50_level == RSub(RInt(swing.swing_high), RMul(price_range, Fib50))
             fib_618_level == RSub(RInt(swing.swing_high), RMul(price_range, Fib618))
         IN  RLe(fib_618_level, RInt(current_close))
             /\ RLe(RInt(current_close), fib_50_level)

BuyScoreUnweighted(c) ==
    (IF c.ema_trend_bullish THEN 1 ELSE 0) + (IF c.macd_bullish THEN 1 ELSE 0)
    + (IF c.rsi_ok THEN 1 ELSE 0) + (IF c.adx_strong THEN 1 ELSE 0)
    + (IF c.fibo_support THEN 1 ELSE 0) + (IF c.low_volatility THEN 1 ELSE 0)
    + (IF c.aroon_up_trending THEN 1 ELSE 0)

BuyScore(c) ==
    (IF c.ema_trend_bullish THEN 2 ELSE 0) + (IF c.macd_bullish THEN 1 ELSE 0)
    + (IF c.rsi_ok THEN 1 ELSE 0) + (IF c.adx_strong THEN 1 ELSE 0)
    + (IF c.fibo_support THEN 2 ELSE 0) + (IF c.low_volatility THEN 1 ELSE 0)
    + (IF c.aroon_up_trending THEN 1 ELSE 0)

BuyConditions(df, fibo_lookback_period, rsi_overbought, adx_trend_threshold) ==
    LET last_row == df.rows[Len(df.rows)]
    IN  [ema_trend_bullish |-> last_row.ema_12 > last_row.ema_26
                               /\ last_row.ema_26 > last_row.ema_50,
         macd_bullish |-> last_row.macd > last_row.macd_signal,
         rsi_ok |-> last_row.rsi < rsi_overbought,
         adx_strong |-> last_row.adx > adx_trend_threshold,
         low_volatility |-> RLt(RInt(last_row.atr), SeriesMean(df.rows, "atr")),
         aroon_up_trending |-> last_row.aroon_oscillator > 0,
         fibo_support |-> FiboSupport(FindRecentSwingHighLow(df, fibo_lookback_period),
                                      last_row.close)]

BoolReturn(b) == [kind |-> "bool", value |-> b]

CheckBuyCondition(df, fibo_lookback_period, rsi_overbought, adx_trend_threshold, buy_score_threshold) ==
    IF df.none \/ Len(df.rows) < 2 THEN BoolReturn(FALSE)
    ELSE IF ~(BuyRequiredIndicators \subseteq df.columns) THEN BoolReturn(FALSE)
    ELSE IF \E col \in BuyRequiredIndicators : IsNa(df.rows[Len(df.rows)][col])
    THEN BoolReturn(FALSE)
    ELSE BoolReturn(BuyScore(BuyConditions(df, fibo_lookback_period, rsi_overbought,
                                           adx_trend_threshold))
                    >= buy_score_threshold)

SellConditions(df, entry, stop_loss_percent) ==
    LET last_row == df.rows[Len(df.rows)]
    IN  [trend_reversal |-> last_row.ema_12 < last_row.ema_26,
         momentum_loss |-> last_row.macd < last_row.macd_signal,
         stop_loss_triggered |-> StopLossBreached(last_row.close, entry,
                                                  stop_loss_percent),
         high_volatility |-> RLt(SeriesMean(df.rows, "atr"), RInt(last_row.atr)),
         aroon_down_trending |-> last_row.aroon_oscillator < 0]

AnyOf(c) == \E name \in DOMAIN c : c[name]

CheckSellCondition(df, entry, stop_loss_percent) ==
    IF df.none \/ df.rows = <<>> \/ entry <= 0 THEN BoolReturn(FALSE)
    ELSE IF ~(SellRequiredIndicators \subseteq df.columns) THEN BoolReturn(FALSE)
    ELSE IF \E col \in SellRequiredIndicators : IsNa(df.rows[Len(df.rows)][col])
    THEN BoolReturn(FALSE)
    ELSE BoolReturn(AnyOf(SellConditions(df, entry, stop_loss_percent)))

(***************************************************************************)
(* The parameters of check_sell_condition and the arguments the bar loop   *)
(* passes to it.                                                           *)
(***************************************************************************)
SellParameters == <<"df", "entry_price", "stop_loss_percent">>

SellCallArguments ==
    <<"lookback_df", "fibo_lookback_period", "rsi_overbought", "adx_trend_threshold",
      "buy_score_threshold">>

(***************************************************************************)
(* The frames and arguments the strategy functions are called with.        *)
(***************************************************************************)
AllColumns == SwingColumns \cup BuyRequiredIndicators

CalculatedColumns == AllColumns \ {"atr", "aroon_oscillator"}

BaseRow ==
    [high |-> 1000, low |-> 0, close |-> 400, ema_12 |-> 3, ema_26 |-> 2,
     ema_50 |-> 1, macd |-> 1, macd_signal |-> 0, rsi |-> 50, adx |-> 30,
     atr |-> 1, aroon_oscillator |-> 1]

LastRows ==
    [high : {1000}, low : {0}, close : {381, 382, 500, 501}, ema_12 : {1, 3},
     ema_26 : {2}, ema_50 : {1, 3}, macd : {0 - 1, 0, 1}, macd_signal : {0},
     rsi : {67, 68}, adx : {25, 26}, atr : {1, 3}, aroon_oscillator : {0 - 1, 0, 1}]

PrevRows == {[BaseRow EXCEPT !.atr = 2], [BaseRow EXCEPT !.atr = NaN, !.high = 2000]}

Frame(cols, rows) == [none |-> FALSE, columns |-> cols, rows |-> rows]

NoneFrame == [none |-> TRUE, columns |-> {}, rows |-> <<>>]

FullFrames == {Frame(AllColumns, <<prev, last>>) : prev \in PrevRows, last \in LastRows}

EdgeFrames ==
    {NoneFrame, Frame(AllColumns, <<>>), Frame(AllColumns, <<BaseRow>>),
     Frame(CalculatedColumns, <<BaseRow, BaseRow>>),
     Frame(AllColumns \ {"high"}, <<BaseRow, BaseRow>>),
     Frame(AllColumns, <<BaseRow, [BaseRow EXCEPT !.low = 1000]>>),
     Frame(AllColumns, <<BaseRow, BaseRow, BaseRow>>)}
    \cup {Frame(AllColumns, <<BaseRow, [BaseRow EXCEPT ![col] = NaN]>>) :
              col \in AllColumns}

FlatLastRows ==
    {[last EXCEPT !.low = last.high] :
        last \in {r \in LastRows : r.close = 382 /\ r.rsi = 67}}

FlatFrames == {Frame(AllColumns, <<BaseRow, last>>) : last \in FlatLastRows}

StrategyFrames == FullFrames \cup EdgeFrames \cup FlatFrames

engine_vars ==
    <<params, strategy_api, pc, csv_pos, strategy_df, df_index, last_close, pending,
      in_position, entry_price, position_size, entry_timestamp, trades,
      processed_candles_count, capital, position, peak_capital, max_drawdown,
      total_trades, winning_trades, losing_trades, portfolio_values, engine_trades,
      row, results, doubles>>

CallCheckBuy ==
    /\ call = NoCall
    /\ \E df \in StrategyFrames, fibo \in {0, 1, 2}, rsi_ob \in {68}, adx_thr \in {25},
          buy_thr \in {4, 7, 9} :
          call' = [fn |-> "check_buy_condition", df |-> df,
                   fibo_lookback_period |-> fibo, rsi_overbought |-> rsi_ob,
                   adx_trend_threshold |-> adx_thr, buy_score_threshold |-> buy_thr,
                   out |-> CheckBuyCondition(df, fibo, rsi_ob, adx_thr, buy_thr)]
    /\ UNCHANGED engine_vars

CallCheckSell ==
    /\ call = NoCall
    /\ \E df \in StrategyFrames, entry \in {0, 100, 764}, stop_loss \in StopLosses :
          call' = [fn |-> "check_sell_condition", df |-> df, entry_price |-> entry,
                   stop_loss_percent |-> stop_loss,
                   out |-> CheckSellCondition(df, entry, stop_loss)]
    /\ UNCHANGED engine_vars

SwingRows == [high : {NaN, 1, 2, 3}, low : {NaN, 0, 1}]

SwingFrames ==
    {NoneFrame, Frame(SwingColumns, <<>>)}
    \cup {Frame(SwingColumns, <<a>>) : a \in SwingRows}
    \cup {Frame(SwingColumns, <<a, b>>) : a \in SwingRows, b \in SwingRows}
    \cup {Frame(SwingColumns, <<a, b, c>>) :
              a \in SwingRows, b \in SwingRows, c \in SwingRows}
    \cup {Frame({col}, <<[high |-> 3, low |-> 1]>>) : col \in SwingColumns}

SwingLookbacks == 0..4

CallFindSwing ==
    /\ call = NoCall
    /\ \E df \in SwingFrames, lookback_period \in SwingLookbacks :
          call' = [fn |-> "find_recent_swing_high_low", df |-> df,
                   lookback_period |-> lookback_period,
                   out |-> FindRecentSwingHighLow(df, lookback_period),
                   df_after |-> df]
    /\ UNCHANGED engine_vars

InitStrategy == InitWith(MaxRows, {R(0, 1)}, StopLosses, Fibos, {"pair"}, Timeframes)

NextStrategy ==
    \/ CallCheckBuy
    \/ CallCheckSell
    \/ CallFindSwing

SpecStrategy == InitStrategy /\ [][NextStrategy]_vars

(***************************************************************************)
(* Direct calls of _calculate_sharpe_ratio on short lists of samples.      *)
(***************************************************************************)
MaxSamples == 4

SampleValues == {1, 2, 4}

(* Lists whose returns are all equal in exact arithmetic but not dyadic.   *)
GeometricLists ==
    {<<125, 75, 45, 27>>, <<27, 18, 12, 8>>, <<10000, 9000, 8100, 7290>>}

SampleLists ==
    UNION {[1..n -> SampleValues] : n \in 0..MaxSamples} \cup GeometricLists

TimeframeMinutes == {1, 60, 1440}

(* The sample values of a direct call are whole numbers.                   *)
SampleDoubles(values) == [k \in 1..Len(values) |-> FInt(values[k])]

CallSharpe ==
    /\ call = NoCall
    /\ \E values \in SampleLists, timeframe_minutes \in TimeframeMinutes :
          call' = [fn |-> "_calculate_sharpe_ratio",
                   portfolio_values |-> values,
                   timeframe_minutes |-> timeframe_minutes,
                   out |-> CalculateSharpeRatio(SampleDoubles(values),
                                                timeframe_minutes)]
    /\ UNCHANGED engine_vars

NextMetrics == CallSharpe

SpecMetrics == InitStrategy /\ [][NextMetrics]_vars

(***************************************************************************)
(* run_bot of main.py: the live loop.  Its locals in_position and          *)
(* entry_price are the variables of the same names; row records what the   *)
(* last iteration met.  One action is one pass of the while body.         *)
(* main.py imports the strategy module at its line 17, before run_bot      *)
(* exists, so the loop only runs with a module that can be imported: the   *)
(* evaluators are those of strategy_api = "pair", which take the arguments *)
(* of the call sites of run_bot; a check may answer or raise.              *)
(***************************************************************************)
MaxIterations == 3

BotCloses == {100, 101}

StepOutcomes == {"none", "empty", "raises", "ok"}

BotSignalOutcomes == {"true", "false", "raises"}

BotNoRow ==
    [iteration |-> 0, fetch |-> "skipped", indicators |-> "skipped",
     signal |-> "skipped", close |-> 0, sleep |-> 0]

InitBot ==
    /\ params \in [symbol : Symbols,
                   timeframe : Timeframes,
                   initial_capital : {InitialCapital},
                   commission : {R(0, 1)},
                   stop_loss_percent : StopLosses,
                   fibo_lookback_period : Fibos,
                   range : {[start |-> 1, end |-> MaxRows]}]
    /\ strategy_api = "pair"
    /\ pc = "init_exchange"
    /\ csv_pos = 0
    /\ strategy_df = <<>>
    /\ df_index = <<>>
    /\ last_close = 0
    /\ pending = <<>>
    /\ in_position = FALSE
    /\ entry_price = 0
    /\ position_size = RInt(0)
    /\ entry_timestamp = 0
    /\ trades = <<>>
    /\ processed_candles_count = 0
    /\ capital = RInt(params.initial_capital)
    /\ position = 0
    /\ peak_capital = RInt(params.initial_capital)
    /\ max_drawdown = RInt(0)
    /\ total_trades = 0
    /\ winning_trades = 0
    /\ losing_trades = 0
    /\ portfolio_values = <<>>
    /\ engine_trades = <<>>
    /\ row = BotNoRow
    /\ results = NoResults
    /\ call = NoCall
    /\ doubles = [capital |-> FInt(params.initial_capital),
                  position_size |-> FZero,
                  values |-> <<>>]

bot_frame ==
    <<params, strategy_api, csv_pos, strategy_df, df_index, last_close, pending,
      position_size, entry_timestamp, trades, processed_candles_count, capital,
      position, peak_capital, max_drawdown, total_trades, winning_trades,
      losing_trades, portfolio_values, engine_trades, results, call, doubles>>

(* The exchange connection: any failure returns before the loop.           *)
BotConnect ==
    /\ pc = "init_exchange"
    /\ \E connected \in BOOLEAN : pc' = IF connected THEN "loop" ELSE "done"
    /\ UNCHANGED <<in_position, entry_price, row>>
    /\ UNCHANGED bot_frame

BotSignalUnlessFalse(signal) == signal # "false"

BotSignal(signal) == signal = "true"

BotIteration ==
    /\ pc = "loop"
    /\ row.iteration < MaxIterations
    /\ \E fetch \in StepOutcomes, calc \in StepOutcomes, close \in BotCloses,
          outcome \in BotSignalOutcomes :
        LET indicators == IF fetch = "ok" THEN calc ELSE "skipped"
            data_ok == fetch = "ok" /\ calc = "ok"
            signal == IF data_ok THEN outcome ELSE "skipped"
            buy_signal == data_ok /\ ~in_position /\ BotSignal(signal)
            sell_signal == data_ok /\ in_position /\ BotSignal(signal)
        IN  /\ in_position' = IF buy_signal THEN TRUE
                              ELSE IF sell_signal THEN FALSE ELSE in_position
            /\ entry_price' = IF buy_signal THEN close
                              ELSE IF sell_signal THEN 0 ELSE entry_price
            /\ row' = [iteration |-> row.iteration + 1, fetch |-> fetch,
                       indicators |-> indicators, signal |-> signal,
                       close |-> IF data_ok THEN close ELSE 0,
                       sleep |-> IF data_ok THEN 3600
                                 ELSE IF "raises" \in {fetch, indicators} THEN 600
                                 ELSE 300]
    /\ pc' = "loop"
    /\ UNCHANGED bot_frame

(* KeyboardInterrupt: the loop is left.                                    *)
BotInterrupt ==
    /\ pc = "loop"
    /\ pc' = "done"
    /\ UNCHANGED <<in_position, entry_price, row>>
    /\ UNCHANGED bot_frame

NextBot ==
    \/ BotConnect
    \/ BotIteration
    \/ BotInterrupt

SpecBot == InitBot /\ [][NextBot]_vars

(***************************************************************************)
(* Helpers of the properties.                                              *)
(***************************************************************************)
Handled == row.timestamp # 0

InLoop == Handled /\ row.action # "CLOSE_POSITION"

Completed == results.status = "ok"

Pnls(ts) == [k \in 1..Len(ts) |-> ts[k].pnl]

Closing == {"STOP_LOSS", "SELL", "CLOSE_POSITION"}

LastInRangeRow == IF csv_pos < params.range.end THEN csv_pos ELSE params.range.end

InRangeRows ==
    IF LastInRangeRow < params.range.start THEN 0
    ELSE LastInRangeRow - params.range.start + 1

(* C1: after a completed run final_capital = initial_capital + the sum of  *)
(* the pnl of all recorded trades.                                         *)
C1_FinalCapitalIsInitialPlusPnl ==
    Completed =>
        results.final_capital =
            RAdd(RInt(results.initial_capital), RSum(Pnls(results.trades)))

(* C2: the entry takes size*entry_price*(1+commission_rate) from capital,  *)
(* and every close (stop-loss, signal sell, forced close) adds exactly     *)
(* size*exit_price minus the exit commission.                              *)
C2_CommissionChargedOnce ==
    Handled =>
        /\ row.action = "BUY" =>
              capital = RSub(row.capital_before,
                             RMul(RMul(position_size, RInt(entry_price)),
                                  RAdd(RInt(1), params.commission)))
        /\ row.action \in Closing =>
              capital = RAdd(row.capital_before,
                             RSub(RMul(row.size_before, RInt(row.close)),
                                  RMul(RMul(row.size_before, RInt(row.close)),
                                       params.commission)))

(* C3: on any bar where the position is LONG and both the stop-loss breach *)
(* and the exit signal hold, exactly one trade is closed on that bar, and  *)
(* it is recorded as STOP_LOSS.                                            *)
C3_StopLossPrecedence ==
    (InLoop /\ row.was_long /\ row.breach /\ row.sell_signal)
        => /\ Len(trades) = row.trades_before + 1
           /\ trades[Len(trades)].type = "STOP_LOSS"
           /\ TimeOf(trades[Len(trades)].exit_time) = row.timestamp
           /\ trades[Len(trades)].exit_price = row.close
           /\ ~in_position

(* What "settled" means at the end of a completed run: one                 *)
(* CLOSE_POSITION trade at the close of the last in-range bar when a       *)
(* position was open, no extra trade otherwise, and final_capital the cash *)
(* balance alone.                                                          *)
Settled ==
    IF row.action = "CLOSE_POSITION"
    THEN /\ Len(engine_trades) = Len(trades) + 1
         /\ engine_trades[Len(engine_trades)].type = "CLOSE_POSITION"
         /\ engine_trades[Len(engine_trades)].exit_price = row.close
         /\ TimeOf(engine_trades[Len(engine_trades)].exit_time) = row.timestamp
         /\ row.timestamp = LastInRangeRow
         /\ results.trades = engine_trades
         /\ results.final_capital = capital
         /\ position = 0
    ELSE /\ engine_trades = trades
         /\ results.trades = trades
         /\ results.final_capital = capital

(* C4: every run that completes ends with the position FLAT: a position   *)
(* that is LONG after the last bar is closed at the close of the last bar  *)
(* the run was given (the bars of the date range), a trade is appended for *)
(* it and final_capital holds no unsettled holding value.                  *)
C4_EndsFlat ==
    Completed => /\ ~in_position
                 /\ (Handled => Settled)

(* C5: the position is FLAT or LONG; on a bar the entry evaluator is       *)
(* invoked only while FLAT, the stop-loss/exit check only while LONG, and  *)
(* never both.                                                             *)
C5_OneEvaluatorPerBar ==
    /\ in_position \in BOOLEAN
    /\ InLoop =>
          /\ ("entry" \in row.evaluated => ~row.was_long)
          /\ ("exit" \in row.evaluated => row.was_long)
          /\ Cardinality(row.evaluated) <= 1
          /\ (row.action = "BUY" => ~row.was_long /\ in_position)
          /\ (row.action \in {"STOP_LOSS", "SELL"} => row.was_long /\ ~in_position)

C5_Witness ==
    /\ InLoop /\ row.evaluated = {"exit"} /\ row.action = "SELL"
    /\ total_trades = 2

(* C6: every portfolio sample equals capital + size*close when the         *)
(* position is LONG at that bar, and capital when FLAT.                    *)
C6_SampleIsMarkToMarket ==
    InLoop =>
        portfolio_values[Len(portfolio_values)].value =
            IF row.was_long
            THEN RAdd(row.capital_before, RMul(row.size_before, RInt(row.close)))
            ELSE row.capital_before

(* C7: capital is never negative.                                          *)
C7_CapitalNonNegative == capital.n >= 0

(* C8: the reported max_drawdown_percent lies in 0..100.                   *)
C8_DrawdownPercentInRange ==
    Completed =>
        /\ RLe(RInt(0), results.max_drawdown_percent)
        /\ RLe(results.max_drawdown_percent, RInt(100))

(* C9: exactly one sample per in-range bar of the input, in increasing     *)
(* timestamp order, whatever the chunking.                                 *)
C9_OneSamplePerInRangeBar ==
    Completed =>
        /\ Len(portfolio_values) = InRangeRows
        /\ \A k \in 1..Len(portfolio_values) :
              TimeOf(portfolio_values[k].timestamp) = params.range.start + k - 1

(* C10: once the run has seen fibo_lookback_period + 50 in-range bars,     *)
(* every later in-range bar the loop reads receives a decision.            *)
C10_DecisionAfterWarmup ==
    (InLoop /\
     row.timestamp - params.range.start >= WarmupLength(params.fibo_lookback_period))
        => row.evaluated # {}

(* C11: the window handed to an evaluator at a bar holds only bars with a  *)
(* timestamp up to that bar's and ends with that bar; the entry price, the *)
(* exit price and the stop-loss test of the bar use the bar's own close.   *)
C11_WindowIsCausal ==
    (InLoop /\ row.evaluated # {}) =>
        /\ row.window # <<>>
        /\ \A k \in 1..Len(row.window) : row.window[k] <= row.timestamp
        /\ row.window[Len(row.window)] = row.timestamp
        /\ (row.action = "BUY" => entry_price = row.close)
        /\ (row.action \in {"STOP_LOSS", "SELL"} =>
               trades[Len(trades)].exit_price = row.close)
        /\ (row.was_long =>
               (row.breach <=> StopLossBreached(row.close, entry_price,
                                                params.stop_loss_percent)))

C11_Witness ==
    /\ InLoop /\ row.action = "BUY"
    /\ pending # <<>>
    /\ Len(df_index) > Len(row.window)
    /\ Len(row.window) >= WarmupLength(params.fibo_lookback_period)

(* C12: while the input has fewer than fibo_lookback_period + 50 in-range  *)
(* bars the run stays FLAT with no trade and capital = initial_capital,    *)
(* and a run that completes on such an input reports zero trades and       *)
(* total_return_percent = 0.                                               *)
C12_ShortInputNoTrades ==
    InRangeRows < WarmupLength(params.fibo_lookback_period) =>
        /\ ~in_position
        /\ total_trades = 0
        /\ trades = <<>>
        /\ capital = RInt(params.initial_capital)
        /\ Completed => /\ results.total_trades = 0
                        /\ results.trades = <<>>
                        /\ results.final_capital = RInt(params.initial_capital)
                        /\ results.total_return_percent = RInt(0)

C12_Witness ==
    /\ Completed
    /\ InRangeRows = WarmupLength(params.fibo_lookback_period) - 1
    /\ Len(portfolio_values) = InRangeRows

(* C13: a run whose input has no bar inside the date range ends in the     *)
(* error result, not in a metrics result.                                  *)
C13_EmptyInputIsFatal ==
    (pc = "done" /\ InRangeRows = 0) => results.status = "error"

(* C14: a run over an input with a repeated timestamp ends in the error    *)
(* result, with no bar processed and no sample or trade recorded.          *)
C14_UnorderedInputIsFatal ==
    (pc = "done" /\ csv_pos >= RepeatedRow) =>
        /\ results.status = "error"
        /\ processed_candles_count = 0
        /\ portfolio_values = <<>>
        /\ engine_trades = <<>>

(* C15: an evaluation problem never aborts the run.  On an input with      *)
(* strictly increasing timestamps run_backtest never returns the error     *)
(* result, whatever the strategy module and the indicator calculation do;  *)
(* and a bar on which the evaluator that is consulted answers no (it fails *)
(* closed, or the bar's indicator values are undefined) records its        *)
(* sample and leaves position, capital and trade log unchanged.            *)
C15_EvaluationNeverAborts ==
    /\ results.status # "error"
    /\ (InLoop /\ row.evaluated # {} /\ ~row.buy_signal /\ ~row.sell_signal
               /\ ~row.breach)
           => /\ row.action = "NONE"
              /\ TimeOf(portfolio_values[Len(portfolio_values)].timestamp)
                     = row.timestamp
              /\ in_position = row.was_long
              /\ capital = row.capital_before
              /\ Len(trades) = row.trades_before

(* The window of the last check_buy_condition call can be evaluated: at    *)
(* least two bars, every required column, every required value of the      *)
(* latest bar defined.                                                     *)
BuyCallEvaluable ==
    /\ call.fn = "check_buy_condition"
    /\ ~call.df.none
    /\ Len(call.df.rows) >= 2
    /\ BuyRequiredIndicators \subseteq call.df.columns
    /\ \A col \in BuyRequiredIndicators : ~IsNa(call.df.rows[Len(call.df.rows)][col])

(* The score of the claim for the last check_buy_condition call, in        *)
(* integer arithmetic: the band test is 0.5*range <= high - close <=       *)
(* 0.618*range.                                                            *)
BuyCallScore ==
    LET last == call.df.rows[Len(call.df.rows)]
        swing == FindRecentSwingHighLow(call.df, call.fibo_lookback_period)
        in_band == /\ swing.defined
                   /\ 2 * (swing.swing_high - last.close)
                          >= swing.swing_high - swing.swing_low
                   /\ 1000 * (swing.swing_high - last.close)
                          <= 618 * (swing.swing_high - swing.swing_low)
        below_mean == last.atr * SeriesCount(call.df.rows, "atr")
                          < SeriesSum(call.df.rows, "atr")
    IN  (IF last.ema_12 > last.ema_26 /\ last.ema_26 > last.ema_50 THEN 2 ELSE 0)
        + (IF last.macd > last.macd_signal THEN 1 ELSE 0)
        + (IF last.rsi < call.rsi_overbought THEN 1 ELSE 0)
        + (IF last.adx > call.adx_trend_threshold THEN 1 ELSE 0)
        + (IF in_band THEN 2 ELSE 0)
        + (IF below_mean THEN 1 ELSE 0)
        + (IF last.aroon_oscillator > 0 THEN 1 ELSE 0)

(* The window of the last check_buy_condition call has a latest bar with   *)
(* every required value defined; the window may hold that bar alone.       *)
BuyCallLatestDefined ==
    /\ call.fn = "check_buy_condition"
    /\ ~call.df.none
    /\ call.df.rows # <<>>
    /\ BuyRequiredIndicators \subseteq call.df.columns
    /\ \A col \in BuyRequiredIndicators : ~IsNa(call.df.rows[Len(call.df.rows)][col])

(* C16 as stated: on every window whose latest bar has all required values *)
(* defined check_buy_condition fires iff the score (+2 EMA12>EMA26>EMA50,  *)
(* +1 MACD>signal, +1 RSI<rsi_overbought, +1 ADX>adx_trend_threshold,      *)
(* +2 close inside the inclusive Fibonacci band, +1 ATR below the window's *)
(* mean ATR, +1 Aroon oscillator > 0) is at least buy_score_threshold; the *)
(* score is in 0..9.                                                       *)
C16_BuyFiresIffScoreOnAnyWindow ==
    BuyCallLatestDefined =>
        /\ call.out.value <=> (BuyCallScore >= call.buy_score_threshold)
        /\ BuyCallScore \in 0..9

(* C16 amended: on every window of at least two bars whose latest bar has  *)
(* all required values defined check_buy_condition fires iff the score     *)
(* (the same sum of weights) is at least buy_score_threshold, and the      *)
(* score is in 0..9; on a window of fewer than two bars it does not fire,  *)
(* whatever the score.                                                     *)
C16_BuyFiresIffScore ==
    /\ BuyCallEvaluable =>
           /\ call.out.value <=> (BuyCallScore >= call.buy_score_threshold)
           /\ BuyCallScore \in 0..9
    /\ (BuyCallLatestDefined /\ ~BuyCallEvaluable) => ~call.out.value

C16_Witness ==
    /\ BuyCallEvaluable
    /\ call.out.value
    /\ BuyCallScore = call.buy_score_threshold
    /\ call.df.rows[Len(call.df.rows)].close = 382
    /\ call.fibo_lookback_period = 1

(* C17: every call of the entry evaluator returns a pair (decision,        *)
(* score), and the pair is (false, 0) when the window has fewer than two   *)
(* bars, a required column is missing or a required value of the latest    *)
(* bar is undefined.                                                       *)
C17_EntryEvaluatorReturnsPair ==
    call.fn = "check_buy_condition" =>
        /\ call.out.kind = "pair"
        /\ (~BuyCallEvaluable => call.out = [kind |-> "pair", value |-> FALSE, score |-> 0])

(* The last check_sell_condition call answered true iff one of the five    *)
(* exit reasons holds on an evaluable window with entry_price > 0, and     *)
(* false otherwise.                                                        *)
SellCallAgrees ==
    call.fn = "check_sell_condition" =>
        LET rows == call.df.rows
            last == rows[Len(rows)]
            evaluable == /\ ~call.df.none
                         /\ rows # <<>>
                         /\ call.entry_price > 0
                         /\ SellRequiredIndicators \subseteq call.df.columns
                         /\ \A col \in SellRequiredIndicators : ~IsNa(last[col])
        IN  call.out.value <=>
                /\ evaluable
                /\ \/ last.ema_12 < last.ema_26
                   \/ last.macd < last.macd_signal
                   \/ call.stop_loss_percent.d * last.close
                          <= call.entry_price * (call.stop_loss_percent.d
                                                 - call.stop_loss_percent.n)
                   \/ last.atr * SeriesCount(rows, "atr") > SeriesSum(rows, "atr")
                   \/ last.aroon_oscillator < 0

(* C18: on a decided LONG bar without stop-loss breach the loop calls the  *)
(* exit evaluator with (window, entry_price, stop_loss_percent) and closes *)
(* the position as a signal sell iff the evaluator answers true.           *)
C18_ExitEvaluatorCall ==
    (InLoop /\ row.was_long /\ row.warm /\ ~row.breach) =>
        /\ "exit" \in row.evaluated
        /\ SellCallArguments = <<"lookback_df", "entry_price", "stop_loss_percent">>
        /\ row.action \in {"SELL", "NONE"}
        /\ (row.action = "SELL" <=> row.sell_signal)

(* C19: while LONG a bar closes the position as STOP_LOSS iff its close is *)
(* at most entry_price*(1-stop_loss_percent); with stop_loss_percent 0.03  *)
(* and entry_price 100 a close of 97 triggers and a close of 98 does not.  *)
C19_StopLossBoundary ==
    /\ StopLossBreached(97, 100, R(3, 100))
    /\ ~StopLossBreached(98, 100, R(3, 100))
    /\ (InLoop /\ row.was_long) =>
          (row.action = "STOP_LOSS" <=>
              StopLossExact(row.close, entry_price, params.stop_loss_percent).n <= 0)

(* C20: an entry at a bar with close P and cash C opens the position with  *)
(* entry_price = P and size = (C*0.99)/P and leaves cash                   *)
(* C - size*P*(1+commission_rate); with C = 10000, commission_rate 0.001   *)
(* and P = 100 the size is 99 and the cash 90.1.                           *)
C20_EntrySizing ==
    (InLoop /\ row.action = "BUY") =>
        /\ in_position
        /\ entry_price = row.close
        /\ RMul(RMul(position_size, RInt(row.close)), RInt(100))
               = RMul(row.capital_before, RInt(99))
        /\ RAdd(capital, RMul(RMul(position_size, RInt(row.close)),
                              RAdd(RInt(1), params.commission)))
               = row.capital_before
        /\ (row.close = 100 /\ row.capital_before = RInt(10000)
                /\ params.commission = R(1, 1000))
              => position_size = RInt(99) /\ capital = R(901, 10)

C20_Witness ==
    /\ InLoop /\ row.action = "BUY"
    /\ row.close = 100
    /\ row.capital_before = RInt(10000)
    /\ params.commission = R(1, 1000)
    /\ position_size = RInt(99)
    /\ capital = R(901, 10)

(* The pnl and commission the claim gives for a trade.                     *)
TradeAccountsAgree(t) ==
    LET entry_commission == RMul(RMul(t.position_size, RInt(t.entry_price)),
                                 params.commission)
        exit_commission == RMul(RMul(t.position_size, RInt(t.exit_price)),
                                params.commission)
    IN  /\ t.pnl = RSub(RSub(RMul(RInt(t.exit_price - t.entry_price), t.position_size),
                             entry_commission),
                        exit_commission)
        /\ t.commission = RAdd(entry_commission, exit_commission)
        /\ (t.exit_price = t.entry_price =>
               t.pnl = RNeg(RAdd(entry_commission, exit_commission)))

(* C21: every recorded trade has pnl = (exit_price - entry_price)*size     *)
(* - size*entry_price*commission_rate - size*exit_price*commission_rate    *)
(* and commission = the sum of the two commissions; a trade closed at its  *)
(* entry price has pnl = -(entry commission + exit commission).            *)
C21_TradePnlFormula ==
    /\ \A k \in 1..Len(trades) : TradeAccountsAgree(trades[k])
    /\ \A k \in 1..Len(engine_trades) : TradeAccountsAgree(engine_trades[k])

C21_Witness ==
    /\ Completed
    /\ Len(engine_trades) = 1
    /\ engine_trades[1].type = "CLOSE_POSITION"
    /\ engine_trades[1].exit_price = engine_trades[1].entry_price
    /\ TimeOf(engine_trades[1].entry_time) = TimeOf(engine_trades[1].exit_time) - 1
    /\ engine_trades[1].commission.n > 0
    /\ engine_trades[1].pnl = RNeg(engine_trades[1].commission)

SwingCall == call.fn = "find_recent_swing_high_low"

(* The bars the claim looks at: the last min(N, len) of the sequence.      *)
SwingRecent ==
    LET len == Len(call.df.rows)
        n == IF call.lookback_period < len THEN call.lookback_period ELSE len
    IN  {k \in 1..len : k > len - n}

SwingHighs == {call.df.rows[k].high : k \in SwingRecent} \ {NaN}

SwingLows == {call.df.rows[k].low : k \in SwingRecent} \ {NaN}

SwingUndefined ==
    \/ call.df.none
    \/ call.df.rows = <<>>
    \/ ~({"high", "low"} \subseteq call.df.columns)
    \/ SwingHighs = {}
    \/ SwingLows = {}
    \/ \E h \in SwingHighs, l \in SwingLows :
          /\ \A x \in SwingHighs : x <= h
          /\ \A x \in SwingLows : l <= x
          /\ h <= l

(* C22: find_recent_swing_high_low(df, N) returns (max high, min low) over *)
(* the last min(N, len(df)) bars, and (None, None) when the sequence is    *)
(* empty, a high/low column is absent, an extreme is undefined or          *)
(* swing_high <= swing_low; it returns a result for every input and leaves *)
(* its input as it was.                                                    *)
C22_SwingIsRecentExtremes ==
    SwingCall =>
        /\ call.out.defined = ~SwingUndefined
        /\ call.out.defined =>
              /\ call.out.swing_high \in SwingHighs
              /\ \A x \in SwingHighs : x <= call.out.swing_high
              /\ call.out.swing_low \in SwingLows
              /\ \A x \in SwingLows : call.out.swing_low <= x
        /\ call.df_after = call.df

C22_Witness ==
    /\ SwingCall
    /\ call.out.defined
    /\ call.lookback_period < Len(call.df.rows)
    /\ \E k \in 1..Len(call.df.rows) : call.df.rows[k].high > call.out.swing_high
    /\ \E k \in 1..Len(call.df.rows) :
          call.df.rows[k].low # NaN /\ call.df.rows[k].low < call.out.swing_low

(* The bars of the swing search of the last check_buy_condition call.      *)
BuyCallRecent ==
    LET len == Len(call.df.rows)
        n == IF call.fibo_lookback_period < len THEN call.fibo_lookback_period
             ELSE len
    IN  {k \in 1..len : k > len - n}

(* The swing range of the call is degenerate: the highest recent high is   *)
(* not above the lowest recent low.                                        *)
BuyCallDegenerate ==
    LET highs == {call.df.rows[k].high : k \in BuyCallRecent} \ {NaN}
        lows == {call.df.rows[k].low : k \in BuyCallRecent} \ {NaN}
    IN  /\ highs # {}
        /\ lows # {}
        /\ \A h \in highs : \A l \in lows : h <= l

(* The weights of the six conditions other than the Fibonacci band.        *)
BuyCallOtherSix ==
    LET last == call.df.rows[Len(call.df.rows)]
    IN  (IF last.ema_12 > last.ema_26 /\ last.ema_26 > last.ema_50 THEN 2 ELSE 0)
        + (IF last.macd > last.macd_signal THEN 1 ELSE 0)
        + (IF last.rsi < call.rsi_overbought THEN 1 ELSE 0)
        + (IF last.adx > call.adx_trend_threshold THEN 1 ELSE 0)
        + (IF last.atr * SeriesCount(call.df.rows, "atr")
                  < SeriesSum(call.df.rows, "atr") THEN 1 ELSE 0)
        + (IF last.aroon_oscillator > 0 THEN 1 ELSE 0)

(* C23: when the swing range is degenerate (swing_high <= swing_low) only  *)
(* the +2 Fibonacci contribution is disabled: the entry fires iff the sum  *)
(* of the other six conditions' weights is at least buy_score_threshold.   *)
C23_DegenerateRangeDropsFibo ==
    (BuyCallEvaluable /\ BuyCallDegenerate) =>
        /\ call.out.value <=> (BuyCallOtherSix >= call.buy_score_threshold)
        /\ BuyCallScore = BuyCallOtherSix

C23_Witness ==
    /\ BuyCallEvaluable
    /\ BuyCallDegenerate
    /\ ~call.out.value
    /\ BuyCallOtherSix < call.buy_score_threshold
    /\ call.buy_score_threshold <= BuyCallOtherSix + 2
    /\ BuyCallOtherSix > 0

(* C25: win_rate_percent = winning_trades / total_trades * 100, where      *)
(* total_trades is the number of completed trades of the returned trade    *)
(* log, and 0 when there are no trades; it lies in [0, 100].               *)
C25_WinRate ==
    Completed =>
        LET wins == Cardinality({k \in 1..Len(results.trades) :
                                    results.trades[k].result = "WIN"})
            total == Len(results.trades)
        IN  /\ results.total_trades = total
            /\ results.winning_trades = wins
            /\ total = 0 => results.win_rate_percent = RInt(0)
            /\ total > 0 =>
                  /\ results.win_rate_percent.d * 100 * wins
                         = results.win_rate_percent.n * total
                  /\ results.win_rate_percent.d > 0
            /\ RLe(RInt(0), results.win_rate_percent)
            /\ RLe(results.win_rate_percent, RInt(100))

C25_Witness ==
    /\ Completed
    /\ results.total_trades = 2
    /\ results.winning_trades = 1
    /\ results.win_rate_percent = RInt(50)

SharpeCall == call.fn = "_calculate_sharpe_ratio"

(* The per-sample returns of the call all coincide (their standard         *)
(* deviation is zero), or there is a single one (it is undefined).         *)
SharpeNoSpread ==
    LET v == call.portfolio_values
    IN  \A j \in 1..(Len(v) - 1) : \A k \in 1..(Len(v) - 1) :
            v[j + 1] * v[k] = v[k + 1] * v[j]

(* C26: _calculate_sharpe_ratio returns exactly 0 when fewer than 2        *)
(* samples exist or the standard deviation of the returns is zero or       *)
(* undefined (exactly 2 samples included), and never returns NaN.          *)
C26_SharpeZeroWhenNoSpread ==
    SharpeCall =>
        /\ (Len(call.portfolio_values) < 2 \/ SharpeNoSpread) =>
               call.out.kind = "zero"
        /\ call.out.kind # "nan"

(* The largest element of a non-empty set of rationals.                    *)
Largest(S) == CHOOSE x \in S : \A y \in S : RLe(y, x)

(* The running peak at sample k: the largest of the initial capital and    *)
(* the values of samples 1..k.                                             *)
RunningPeak(samples, initial, k) ==
    Largest({RInt(initial)} \cup {samples[j].value : j \in 1..k})

(* The largest (running peak - value) / running peak over the samples.     *)
MaxDrawdownOver(samples, initial) ==
    Largest({RInt(0)}
            \cup {RDiv(RSub(RunningPeak(samples, initial, k), samples[k].value),
                       RunningPeak(samples, initial, k)) : k \in 1..Len(samples)})

(* C27: the returned max_drawdown_percent is 100 times the maximum, over   *)
(* all portfolio samples, of (running peak - sample value) / running peak: *)
(* the loop's max_drawdown as a percent, not as a fraction.                *)
C27_DrawdownIsPercent ==
    Completed =>
        results.max_drawdown_percent
            = RMul(RInt(100),
                   MaxDrawdownOver(results.portfolio_values,
                                   results.initial_capital))

(* The profit factor of a trade log as the claim defines it.               *)
ProfitFactorOf(ts) ==
    LET wins == SelectSeq(Pnls(ts), LAMBDA x : x.n > 0)
        losses == SelectSeq(Pnls(ts), LAMBDA x : x.n <= 0)
    IN  IF ts = <<>> THEN [kind |-> "number", value |-> RInt(0)]
        ELSE IF losses = <<>> \/ RSum(losses) = RInt(0) THEN [kind |-> "infinite"]
        ELSE [kind |-> "number",
              value |-> RDiv(RSum(wins), RNeg(RSum(losses)))]

(* C28: the run result contains profit_factor = (sum of pnl over winning   *)
(* trades) / |sum of pnl over losing trades|, infinite when there are      *)
(* trades but no losing trade, 0 when there are no trades.                 *)
C28_ProfitFactorReported ==
    Completed =>
        /\ "profit_factor" \in DOMAIN results
        /\ results.profit_factor = ProfitFactorOf(results.trades)

(* C29: whenever the position is LONG, entry_price > 0, the size is > 0    *)
(* and entry_timestamp is set, after any number of entry/exit cycles.      *)
C29_LongHoldsEntry ==
    in_position =>
        /\ entry_price > 0
        /\ position_size.n > 0
        /\ entry_timestamp # 0

(* C30: peak_capital is strictly positive in every reachable state and at  *)
(* least every portfolio sample recorded so far, and neither peak_capital  *)
(* nor max_drawdown ever decreases in a step.                              *)
C30_PeakPositiveMonotone ==
    /\ [](/\ peak_capital.n > 0
          /\ peak_capital.d > 0
          /\ \A k \in 1..Len(portfolio_values) :
                RLe(portfolio_values[k].value, peak_capital))
    /\ [][/\ RLe(peak_capital, peak_capital')
          /\ RLe(max_drawdown, max_drawdown')]_vars

C30_Witness ==
    /\ RLt(RInt(params.initial_capital), peak_capital)
    /\ RLt(RInt(0), max_drawdown)
    /\ Len(portfolio_values) > 1
    /\ RLt(portfolio_values[Len(portfolio_values)].value, peak_capital)

(* The step handles one bar.                                               *)
BarStep == pc = "bars" /\ processed_candles_count' = processed_candles_count + 1

(* The bar just handled is one of the claim's quiet bars: a warm-up bar, a *)
(* FLAT bar without an entry signal, or a LONG bar whose close is above    *)
(* the stop-loss level and that has no exit signal.                        *)
QuietBar ==
    \/ ~row'.warm
    \/ ~in_position /\ ~row'.buy_signal
    \/ /\ in_position
       /\ ~row'.sell_signal
       /\ RLt(RMul(RInt(entry_price), RSub(RInt(1), params.stop_loss_percent)),
              RInt(row'.close))

(* C31: on a bar where no entry and no exit occurs (warm-up bar, FLAT bar  *)
(* without entry signal, LONG bar without stop-loss or exit signal)        *)
(* capital, position size, entry_price, entry_timestamp, the trade log and *)
(* the trade counters are unchanged.                                       *)
C31_QuietBarKeepsAccount ==
    [][(BarStep /\ QuietBar) =>
           UNCHANGED <<capital, in_position, position_size, entry_price,
                       entry_timestamp, trades, engine_trades, total_trades,
                       winning_trades, losing_trades>>]_vars

C31_Witness ==
    /\ InLoop
    /\ row.action = "NONE"
    /\ row.warm
    /\ row.was_long
    /\ in_position
    /\ row.close < entry_price
    /\ row.capital_before = capital
    /\ Len(portfolio_values) > WarmupLength(params.fibo_lookback_period)

(* C32: after each chunk the retained strategy window holds at most        *)
(* 2 * max(fibo_lookback_period, 200) bars, and they are the most recent   *)
(* in-range bars read so far, in timestamp order.                          *)
C32_WindowIsRecentAndBounded ==
    LET fibo == params.fibo_lookback_period
        most == 2 * (IF fibo > 200 THEN fibo ELSE 200)
    IN  /\ Len(strategy_df) <= most
        /\ \A k \in 1..Len(strategy_df) :
              strategy_df[k] = LastInRangeRow - Len(strategy_df) + k
        /\ (InRangeRows > 0 => strategy_df # <<>>)

C32_Witness ==
    /\ Len(strategy_df) = 400
    /\ strategy_df[1] > params.range.start
    /\ strategy_df[400] = LastInRangeRow
    /\ pc = "bars"

(* Every record of the log before the step is still in it, unchanged,      *)
(* after the step.                                                         *)
KeepsRecords(log_before, log_after) ==
    /\ Len(log_before) <= Len(log_after)
    /\ \A k \in 1..Len(log_before) : log_after[k] = log_before[k]

(* C33: trades already in the trade log are never modified afterwards,     *)
(* and neither are the portfolio samples: building the returned result     *)
(* (serialize_results_to_json) leaves the records of the logs as they      *)
(* were.                                                                   *)
C33_LogRecordsNeverModified ==
    [][/\ KeepsRecords(trades, trades')
       /\ KeepsRecords(engine_trades, engine_trades')
       /\ KeepsRecords(portfolio_values, portfolio_values')]_vars

(* A trade log is in time order without overlap.                           *)
Chronological(log) ==
    /\ \A k \in 1..Len(log) : TimeOf(log[k].entry_time) <= TimeOf(log[k].exit_time)
    /\ \A k \in 1..(Len(log) - 1) :
          TimeOf(log[k].exit_time) < TimeOf(log[k + 1].entry_time)

(* C34: the trade log is chronologically ordered and trades never overlap: *)
(* every trade has entry_time <= exit_time, consecutive trades have        *)
(* exit_time(k) < entry_time(k+1), and the one position that may be open   *)
(* was opened after the last recorded trade was closed.                    *)
C34_TradesChronological ==
    /\ Chronological(trades)
    /\ Chronological(engine_trades)
    /\ (Completed => Chronological(results.trades))
    /\ (in_position /\ ~Completed /\ trades # <<>> =>
           TimeOf(trades[Len(trades)].exit_time) < entry_timestamp)

C34_Witness ==
    /\ Completed
    /\ Len(results.trades) = 2
    /\ results.trades[2].type = "CLOSE_POSITION"
    /\ results.trades[2].entry_time = results.trades[2].exit_time
    /\ TimeOf(results.trades[2].entry_time) = TimeOf(results.trades[1].exit_time) + 1

(* The bar step opens a position; the bar step closes one.                 *)
OpensPosition == BarStep /\ total_trades' = total_trades + 1

ClosesPosition == BarStep /\ Len(trades') = Len(trades) + 1

(* C35: inside the loop an entry and an exit never happen on the same bar: *)
(* a bar that opens a position started FLAT and closes nothing, a bar that *)
(* closes a position started LONG, opens nothing and comes after the bar   *)
(* of the entry, and a re-entry comes after the bar of the last exit.      *)
C35_NoEntryAndExitOnOneBar ==
    [][/\ ~(OpensPosition /\ ClosesPosition)
       /\ (OpensPosition =>
              /\ ~in_position /\ in_position'
              /\ trades' = trades
              /\ entry_timestamp' = row'.timestamp
              /\ (trades # <<>> =>
                     trades[Len(trades)].exit_time < row'.timestamp))
       /\ (ClosesPosition =>
              /\ in_position /\ ~in_position'
              /\ total_trades' = total_trades
              /\ entry_timestamp < row'.timestamp
              /\ trades'[Len(trades')].entry_time = entry_timestamp
              /\ trades'[Len(trades')].exit_time = row'.timestamp)]_vars

C35_Witness ==
    /\ InLoop
    /\ row.action = "BUY"
    /\ Len(trades) = 1
    /\ trades[1].exit_time = row.timestamp - 1
    /\ trades[1].entry_time = row.timestamp - 2
    /\ in_position

(* C36: throughout the loop total_trades = number of closed trades + (1 if *)
(* LONG else 0) and winning_trades + losing_trades = number of closed      *)
(* trades; at the end of a completed run winning_trades + losing_trades =  *)
(* total_trades = length of the returned trade log.                        *)
C36_TradeCounters ==
    /\ (~Completed =>
           /\ total_trades = Len(trades) + (IF in_position THEN 1 ELSE 0)
           /\ winning_trades + losing_trades = Len(trades))
    /\ (Completed =>
           /\ results.winning_trades + results.losing_trades = results.total_trades
           /\ results.total_trades = Len(results.trades)
           /\ winning_trades + losing_trades = total_trades
           /\ total_trades = Len(engine_trades))

C36_Witness ==
    /\ ~Completed
    /\ in_position
    /\ Len(trades) = 1
    /\ total_trades = 2
    /\ winning_trades + losing_trades = 1

(* C37: every trade closed by the stop-loss branch has net pnl < 0, so its *)
(* label LOSS is the one the pnl rule (WIN iff pnl > 0) gives.             *)
C37_StopLossTradeLoses ==
    \A k \in 1..Len(trades) :
        trades[k].type = "STOP_LOSS" =>
            /\ trades[k].pnl.n < 0
            /\ trades[k].result = (IF trades[k].pnl.n > 0 THEN "WIN" ELSE "LOSS")

MaxFibo == 500

(* The retained window has been trimmed: its first bar is not the first    *)
(* in-range bar.                                                           *)
WindowTrimmed == df_index # <<>> /\ df_index[1] > params.range.start

(* C38: for every fibo_lookback_period > 0 the window bound                *)
(* 2 * max(fibo_lookback_period, 200) is at least the warm-up length       *)
(* fibo_lookback_period + 50; so in a trimmed window the warm-up test is   *)
(* passed by the last bar, and the window given to the evaluators holds    *)
(* at least fibo_lookback_period bars.                                     *)
C38_WindowCoversWarmup ==
    /\ \A fibo \in 1..MaxFibo :
          /\ WindowLimit(fibo) >= fibo + 50
          /\ WindowLimit(fibo) = 2 * (IF fibo > 200 THEN fibo ELSE 200)
    /\ (WindowTrimmed =>
           /\ Len(df_index) >= params.fibo_lookback_period + 50
           /\ (InLoop /\ row.timestamp = df_index[Len(df_index)] =>
                  /\ row.warm
                  /\ Len(row.window) >= params.fibo_lookback_period))

C38_Witness ==
    /\ InLoop
    /\ WindowTrimmed
    /\ params.fibo_lookback_period = 201
    /\ Len(df_index) = 402
    /\ row.warm
    /\ Len(row.window) = 251

IterationStep == row'.iteration = row.iteration + 1

IterationFailed ==
    \/ row'.fetch # "ok"
    \/ row'.indicators # "ok"
    \/ row'.signal = "raises"

(* C39: in run_bot an iteration in which fetching or the indicator         *)
(* calculation fails, or the signal check raises, leaves in_position and   *)
(* entry_price unchanged and the loop goes on; in_position and entry_price *)
(* change only together, on a buy signal (entry_price = latest close) or   *)
(* on a sell signal (entry_price = 0).                                     *)
C39_BotStateChangesOnSignalsOnly ==
    [][/\ (IterationStep /\ IterationFailed =>
              /\ UNCHANGED <<in_position, entry_price>>
              /\ pc' = "loop")
       /\ (in_position' # in_position \/ entry_price' # entry_price =>
              /\ IterationStep
              /\ row'.signal = "true"
              /\ \/ ~in_position /\ in_position' /\ entry_price' = row'.close
                 \/ in_position /\ ~in_position' /\ entry_price' = 0)]_vars

C39_Witness ==
    /\ pc = "loop"
    /\ row.iteration = 3
    /\ row.signal = "raises"
    /\ in_position
    /\ entry_price = 101
    /\ row.close = 100
====
